---------------------------- MODULE Spec2Model ----------------------------
(***************************************************************************)
(* State-machine model of the streaming engines of dsp_go:                 *)
(*   - FIRFilter        (src/pkg/filters/fir.go)                           *)
(*   - IIRFilter        (src/unnamed/part_005, package filters)            *)
(*   - GoertzelFilter   (src/pkg/filters/goertzel_filter.go)               *)
(*                                                                         *)
(* float64 values are modelled as exact extended rationals <<n, d>> in     *)
(* lowest terms with d >= 0:  d > 0 is the finite value n/d, <<1,0>> is    *)
(* +Inf, <<-1,0>> is -Inf and <<0,0>> is NaN.  Rounding of the mantissa    *)
(* and the sign of zero are not modelled, with one exception: absorption.  *)
(* A value may carry a third component k # 0, <<n, d, k>>, and is then the *)
(* number (n/d) * eps^k, where eps > 0 is so small (1e-40, say) that the   *)
(* float64 sum of two values with different k is the one with the smaller  *)
(* k: an addend below half an ulp of the other leaves it as it is.         *)
(*                                                                         *)
(* Go slices are modelled as functions over 0 .. len-1, so every index     *)
(* of the model is the index the code computes.                            *)
(***************************************************************************)
EXTENDS Integers, Sequences, FiniteSets, TLC

VARIABLES
    fir,          \* the FIRFilter struct: [coeffs, buffer, pos]
    firRet,       \* last FIR call: [op, input, out]; op = "Panic": the constructor panicked
    firCfg,       \* history: the coefficient slice passed to NewFIRFilter
    firIn,        \* history: inputs ticked since construction / last Reset
    firOut,       \* history: outputs returned since construction / last Reset
    firResetFrom, \* history: "none" | "clean" | "dirty" (state the last Reset found)
    iir,          \* the IIRFilter struct
    iirRet,       \* last IIR call: [op, input, out, inputs, outs, stable, h]; "Panic" as for FIR
    iirCfg,       \* history: the <<b, a>> slices as passed to NewIIRFilter
    iirDesign,    \* history: [kind, fc, Q] passed to a design factory, or NoDesign
    iirIn,        \* history: inputs since construction / last Reset
    iirOut,       \* history: outputs since construction / last Reset
    iirResetFrom, \* history: "none" | "clean" | "dirty"
    gf,           \* the GoertzelFilter struct, or GNil
    gRet,         \* last Goertzel call: [op, input, err, val]
    gCfg,         \* history: <<freq, samplingRate, totalN>> passed to the constructor
    gIn,          \* history: samples accepted since construction / last Reset
    gResetFrom,   \* history: "none" | "clean" | "dirty" | "complete"
    gTone,        \* the sinusoid being fed to the detector, or NoTone
    slices,       \* the arrays behind the slices the caller holds, by name
    engs,         \* two engine instances "A", "B": [kind, f, args, cfg, log, outs, got]
    thr,          \* two calls in progress on one filter: [kind, start, t, overlap]
    pd,           \* the CoherentPhaseDetector struct
    pdRet         \* last detector call: [op, val, calls]

firVars == <<fir, firRet, firCfg, firIn, firOut, firResetFrom>>
iirVars == <<iir, iirRet, iirCfg, iirDesign, iirIn, iirOut, iirResetFrom>>
gVars   == <<gf, gRet, gCfg, gIn, gResetFrom, gTone>>
shareVars == <<slices, engs>>
pdVars  == <<pd, pdRet>>
extVars == <<shareVars, thr, pdVars>>
vars    == <<firVars, iirVars, gVars, extVars>>

---------------------------------------------------------------------------
(* Bounds of the model *)

\* Largest number of FIR Ticks explored after construction or a Reset.
MaxFIRTicks == 7
\* Largest number of IIR samples explored after construction or a Reset.
MaxIIRTicks == 5
\* Longest slice handed to IIRFilter.Process.
MaxProcLen == 2

---------------------------------------------------------------------------
(* float64 arithmetic on extended rationals *)

Abs(n) == IF n < 0 THEN -n ELSE n
Sgn(n) == IF n < 0 THEN -1 ELSE IF n > 0 THEN 1 ELSE 0

RECURSIVE GCD(_, _)
GCD(a, b) == IF b = 0 THEN a ELSE GCD(b, a % b)

\* The float64 with value n/d (d = 0: an infinity or NaN), in lowest terms.
Rat(n, d) ==
    IF d = 0 THEN <<Sgn(n), 0>>
    ELSE LET s == IF d < 0 THEN -1 ELSE 1
             g == GCD(Abs(n), Abs(d))
         IN  <<(s * n) \div g, (s * d) \div g>>

Zero == <<0, 1>>
One  == <<1, 1>>
NaN  == <<0, 0>>
PosInf == <<1, 0>>
NegInf == <<-1, 0>>
Num(n) == <<n, 1>>

IsNaN(x) == x = NaN

\* The power of eps a value is scaled by, and the value n/d * eps^k.
Lvl(x) == IF Len(x) = 3 THEN x[3] ELSE 0
Scaled(m, k) == IF k = 0 \/ m[1] = 0 \/ m[2] = 0 THEN m ELSE <<m[1], m[2], k>>

FNeg(x) == Scaled(<<-x[1], x[2]>>, Lvl(x))

\* x + y (IEEE: Inf + -Inf = NaN, NaN absorbs).
FAdd(x, y) ==
    IF x[2] = 0 /\ y[2] = 0 THEN (IF x = y THEN x ELSE NaN)
    ELSE IF x[2] = 0 THEN x
    ELSE IF y[2] = 0 THEN y
    ELSE IF Lvl(x) = Lvl(y)
    THEN LET g == GCD(x[2], y[2])
             l == (x[2] \div g) * y[2]
         IN  Scaled(Rat(x[1] * (l \div x[2]) + y[1] * (l \div y[2]), l), Lvl(x))
    ELSE IF x[1] = 0 THEN y
    ELSE IF y[1] = 0 THEN x
    ELSE IF Lvl(x) < Lvl(y) THEN x ELSE y

FSub(x, y) == FAdd(x, FNeg(y))

\* x * y (IEEE: Inf * 0 = NaN).
\* (n1/d1) * (n2/d2), common factors taken out before the products are formed.
RatMul(n1, d1, n2, d2) ==
    IF d1 = 0 \/ d2 = 0 \/ n1 = 0 \/ n2 = 0 THEN Rat(n1 * n2, d1 * d2)
    ELSE LET g1 == GCD(Abs(n1), d2)
             g2 == GCD(Abs(n2), d1)
         IN  Rat((n1 \div g1) * (n2 \div g2), (d1 \div g2) * (d2 \div g1))

FMul(x, y) == Scaled(RatMul(x[1], x[2], y[1], y[2]), Lvl(x) + Lvl(y))

\* x / y (IEEE: finite/0 = +-Inf, 0/0 = NaN, Inf/Inf = NaN, finite/Inf = 0).
FDiv(x, y) ==
    LET s == IF y[1] < 0 THEN -1 ELSE 1
    IN  Scaled(RatMul(s * x[1], x[2], y[2], Abs(y[1])), Lvl(x) - Lvl(y))

FAbs(x) == Scaled(<<Abs(x[1]), x[2]>>, Lvl(x))

\* x < y (IEEE: every comparison with NaN is false).
FLt(x, y) ==
    IF IsNaN(x) \/ IsNaN(y) THEN FALSE
    ELSE IF x[2] = 0 /\ y[2] = 0 THEN x[1] < y[1]
    ELSE IF x[2] = 0 THEN x[1] < 0
    ELSE IF y[2] = 0 THEN y[1] > 0
    ELSE IF Lvl(x) = Lvl(y)
    THEN LET g == GCD(x[2], y[2])
         IN  x[1] * (y[2] \div g) < y[1] * (x[2] \div g)
    ELSE IF y[1] = 0 \/ (x[1] # 0 /\ Lvl(x) < Lvl(y)) THEN x[1] < 0
    ELSE y[1] > 0

FLe(x, y) == (~IsNaN(x) /\ ~IsNaN(y)) /\ (x = y \/ FLt(x, y))
FGe(x, y) == FLe(y, x)

\* x == y in Go (NaN is equal to nothing, itself included).
FEq(x, y) == ~IsNaN(x) /\ ~IsNaN(y) /\ x = y

\* int(x) for a finite x: truncation toward zero.
FTrunc(x) == IF x[1] >= 0 THEN x[1] \div x[2] ELSE -((-x[1]) \div x[2])

\* A value that is a square root is kept as [sgn, sq]: the number sgn * sqrt(sq).
Root(sgn, sq) == [sgn |-> sgn, sq |-> sq]

\* math.Sqrt(x) for x >= 0.
FSqrt(x) == Root(IF x = Zero THEN 0 ELSE 1, x)

---------------------------------------------------------------------------
(* Go slices *)

\* The slice holding the elements of the tuple s, indexed from 0.
Arr(s) == [i \in 0 .. (Len(s) - 1) |-> s[i + 1]]
ALen(a) == Cardinality(DOMAIN a)
\* make([]float64, n)
MakeZeros(n) == [i \in 0 .. (n - 1) |-> Zero]
\* Go's a % b for b > 0: the remainder has the sign of a.
GoMod(a, b) == IF a >= 0 THEN a % b ELSE -((-a) % b)

\* The sample values fed to the engines.
Samples == {Zero, One, <<-1, 2>>}

---------------------------------------------------------------------------
(* FIRFilter *)

\* Coefficient slices the FIR filter is constructed from (N = 1, 2, 3).
FIRCoeffSets ==
    { <<Num(2)>>,
      <<One, Num(-1)>>,
      <<One, Num(2), Num(3)>>,
      <<<<1, 2>>, Zero, <<-3, 4>>>> }

\* Mutant of NewFIRFilter: the length of the slice is not tested.
NewFIRFilterUnchecked(coeffs) ==
    LET n == Len(coeffs)
    IN  [panic |-> FALSE,
         f |-> [coeffs |-> Arr(coeffs), buffer |-> MakeZeros(n), pos |-> n - 1]]

\* The filter keeps the slice it is given (no copy is made); the buffer is new.
NewFIRFilter(coeffs) ==
    IF Len(coeffs) = 0
    THEN [panic |-> TRUE, f |-> [coeffs |-> <<>>, buffer |-> <<>>, pos |-> 0]]
    ELSE LET n == Len(coeffs)
         IN  [panic |-> FALSE,
              f |-> [coeffs |-> Arr(coeffs), buffer |-> MakeZeros(n), pos |-> n - 1]]

\* The convolution loop of Tick, from (coeffIdx, bufIdx) with the sum so far.
RECURSIVE FIRConvLoop(_, _, _, _)
FIRConvLoop(f, coeffIdx, bufIdx, output) ==
    IF coeffIdx < ALen(f.coeffs)
    THEN LET acc  == FAdd(output, FMul(f.coeffs[coeffIdx], f.buffer[bufIdx]))
             back == bufIdx - 1
             next == IF back < 0 THEN ALen(f.buffer) - 1 ELSE back
         IN  FIRConvLoop(f, coeffIdx + 1, next, acc)
    ELSE output

\* The cursor after Tick's advance.
FIRAdvance(f) == (f.pos + 1) % ALen(f.buffer)

\* The buffer indices the convolution loop of Tick reads, in order.
RECURSIVE FIRConvIndices(_, _, _)
FIRConvIndices(f, coeffIdx, bufIdx) ==
    IF coeffIdx < ALen(f.coeffs)
    THEN LET back == bufIdx - 1
             next == IF back < 0 THEN ALen(f.buffer) - 1 ELSE back
         IN  <<bufIdx>> \o FIRConvIndices(f, coeffIdx + 1, next)
    ELSE <<>>

\* Every buffer index a Tick on f computes: the slot written, then the reads.
FIRTickIndices(f) == <<FIRAdvance(f)>> \o FIRConvIndices(f, 0, FIRAdvance(f))

\* Mutant of FIRTickOp: the sample is stored before the cursor advances.
FIRTickOpStale(f, input) ==
    LET pos2 == FIRAdvance(f)
        f2   == [f EXCEPT !.buffer[f.pos] = input, !.pos = pos2]
    IN  [f |-> f2, out |-> FIRConvLoop(f2, 0, pos2, Zero)]

FIRTickOp(f, input) ==
    LET pos2 == FIRAdvance(f)
        f2   == [f EXCEPT !.pos = pos2, !.buffer[pos2] = input]
    IN  [f |-> f2, out |-> FIRConvLoop(f2, 0, pos2, Zero)]

\* Mutant of FIRResetOp: the cursor is reset, the buffer is not cleared.
FIRResetOpKeepsBuffer(f) == [f EXCEPT !.pos = ALen(f.buffer) - 1]

FIRResetOp(f) ==
    [f EXCEPT !.buffer = [i \in DOMAIN f.buffer |-> Zero],
              !.pos = ALen(f.buffer) - 1]

\* Mutant of GetCoefficients: the first element of the copy is left at zero.
GetCoefficientsFromOne(f) == [i \in DOMAIN f.coeffs |-> IF i = 0 THEN Zero ELSE f.coeffs[i]]

\* make([]float64, len(f.coeffs)) filled by copy.
GetCoefficients(f) == [i \in DOMAIN f.coeffs |-> f.coeffs[i]]

GetBufferSize(f) == ALen(f.buffer)

FIRIsFresh(f) == f.pos = ALen(f.buffer) - 1 /\ \A i \in DOMAIN f.buffer : f.buffer[i] = Zero

\* The state a call of the constructor leaves: a filter, or none after a panic.
FIRInitOf(c) ==
    /\ fir = NewFIRFilter(c).f
    /\ firRet = [op |-> IF NewFIRFilter(c).panic THEN "Panic" ELSE "New",
                 input |-> Zero, out |-> Zero]
    /\ firCfg = c
    /\ firIn = <<>>
    /\ firOut = <<>>
    /\ firResetFrom = "none"

FIRTick(input) ==
    /\ firRet.op # "Panic"
    /\ Len(firIn) < MaxFIRTicks
    /\ LET r == FIRTickOp(fir, input)
       IN  /\ fir' = r.f
           /\ firRet' = [op |-> "Tick", input |-> input, out |-> r.out]
           /\ firIn' = Append(firIn, input)
           /\ firOut' = Append(firOut, r.out)
    /\ UNCHANGED <<firCfg, firResetFrom>>

FIRReset ==
    /\ firRet.op # "Panic"
    /\ fir' = FIRResetOp(fir)
    /\ firRet' = [op |-> "Reset", input |-> Zero, out |-> Zero]
    /\ firIn' = <<>>
    /\ firOut' = <<>>
    /\ firResetFrom' = IF FIRIsFresh(fir) THEN "clean" ELSE "dirty"
    /\ UNCHANGED firCfg

---------------------------------------------------------------------------
(* IIRFilter *)

\* 1e-10 is the square of 1/TolRoot.
TolRoot == 100000

\* x > 1e-10.  For a finite x = n/d this is n > floor(d / 10^10).
ExceedsTol(x) ==
    IF IsNaN(x) THEN FALSE
    ELSE IF x[2] = 0 THEN x[1] > 0
    ELSE IF Lvl(x) # 0 THEN x[1] > 0 /\ Lvl(x) < 0
    ELSE x[1] > ((x[2] \div TolRoot) \div TolRoot)

\* The test that guards normalization: math.Abs(aCoeffs[0]-1.0) > 1e-10.
NeedsNormalizing(a0) == ExceedsTol(FAbs(FSub(a0, One)))

\* complex128: <<real, imag>>.
CZero == <<Zero, Zero>>
\* The filter was not built by a design factory.
NoDesign == [kind |-> "none", fc |-> Zero, Q |-> Zero]

\* The <<b, a>> slices the IIR filter is constructed from:
\* P < Q, P = Q, P > Q, Q = 1, a[0] # 1, and a[0] = 0.
IIRCoeffSets ==
    { << <<<<1, 2>>>>,                  <<One, <<3, 10>>>> >>,
      << <<<<1, 2>>, <<1, 4>>>>,        <<One, <<1, 2>>, <<-1, 4>>>> >>,
      << <<One, <<1, 2>>>>,             <<One, <<-1, 2>>>> >>,
      << <<One, Num(2), Num(3)>>,       <<One, <<1, 2>>>> >>,
      << <<One, Num(-1)>>,              <<One>> >>,
      << <<Num(2), One>>,               <<Num(4), Num(2)>> >>,
      << <<One>>,                       <<Zero, One>> >> }

Max(a, b) == IF a > b THEN a ELSE b

\* x[i] /= normalizer for every i.
DivideAll(xs, normalizer) == [i \in DOMAIN xs |-> FDiv(xs[i], normalizer)]

\* The caller's two slices after the in-place normalization.
NormalizeCoeffs(bCoeffs, aCoeffs) ==
    IF NeedsNormalizing(aCoeffs[0])
    THEN [b |-> DivideAll(bCoeffs, aCoeffs[0]), a |-> DivideAll(aCoeffs, aCoeffs[0])]
    ELSE [b |-> bCoeffs, a |-> aCoeffs]

NilIIR ==
    [bCoeffs |-> <<>>, aCoeffs |-> <<>>, xBuffer |-> <<>>, yBuffer |-> <<>>,
     xPos |-> 0, yPos |-> 0, order |-> 0]

\* bArg and aArg are the caller's slices as the call leaves them.
NewIIRFilter(bCoeffs, aCoeffs) ==
    IF Len(bCoeffs) = 0 \/ Len(aCoeffs) = 0
    THEN [panic |-> TRUE, f |-> NilIIR, bArg |-> Arr(bCoeffs), aArg |-> Arr(aCoeffs)]
    ELSE LET nc == NormalizeCoeffs(Arr(bCoeffs), Arr(aCoeffs))
         IN  [panic |-> FALSE,
              f |-> [bCoeffs |-> nc.b,
                     aCoeffs |-> nc.a,
                     xBuffer |-> MakeZeros(ALen(nc.b)),
                     yBuffer |-> MakeZeros(ALen(nc.a)),
                     xPos |-> 0,
                     yPos |-> 0,
                     order |-> Max(ALen(nc.b), ALen(nc.a)) - 1],
              bArg |-> nc.b,
              aArg |-> nc.a]

\* Mutant of WrapIndex: a negative remainder is not brought back into range.
WrapIndexNoFix(pos, i, n) == GoMod(pos - i, n)

\* The index pos - i wrapped into a buffer of length n, as Tick computes it.
WrapIndex(pos, i, n) ==
    LET idx == GoMod(pos - i, n)
    IN  IF idx < 0 THEN idx + n ELSE idx

\* Feedforward loop of Tick: b0*x[n] + b1*x[n-1] + ...
RECURSIVE IIRForward(_, _, _)
IIRForward(f, i, output) ==
    IF i < ALen(f.bCoeffs)
    THEN IIRForward(f, i + 1,
             FAdd(output, FMul(f.bCoeffs[i],
                               f.xBuffer[WrapIndex(f.xPos, i, ALen(f.xBuffer))])))
    ELSE output

\* Mutant of IIRFeedback: the output history is read at the input cursor.
RECURSIVE IIRFeedback(_, _, _)
IIRFeedbackAtXPos(f, i, output) ==
    IF i < ALen(f.aCoeffs)
    THEN IIRFeedback(f, i + 1,
             FSub(output, FMul(f.aCoeffs[i],
                               f.yBuffer[WrapIndex(f.xPos, i, ALen(f.yBuffer))])))
    ELSE output

\* Feedback loop of Tick: - a1*y[n-1] - a2*y[n-2] - ...
IIRFeedback(f, i, output) ==
    IF i < ALen(f.aCoeffs)
    THEN IIRFeedback(f, i + 1,
             FSub(output, FMul(f.aCoeffs[i],
                               f.yBuffer[WrapIndex(f.yPos, i, ALen(f.yBuffer))])))
    ELSE output

IIRTickOp(f, input) ==
    LET f1  == [f EXCEPT !.xBuffer[f.xPos] = input]
        out == IIRFeedback(f1, 1, IIRForward(f1, 0, Zero))
        f2  == [f1 EXCEPT !.yBuffer[f1.yPos] = out,
                          !.xPos = (f1.xPos + 1) % ALen(f1.xBuffer),
                          !.yPos = (f1.yPos + 1) % ALen(f1.yBuffer)]
    IN  [f |-> f2, out |-> out]

\* Every index into xBuffer, and into yBuffer, a Tick on f computes.
IIRTickXIndices(f) ==
    <<f.xPos>> \o [i \in 1 .. ALen(f.bCoeffs) |-> WrapIndex(f.xPos, i - 1, ALen(f.xBuffer))]
IIRTickYIndices(f) ==
    [i \in 1 .. (ALen(f.aCoeffs) - 1) |-> WrapIndex(f.yPos, i, ALen(f.yBuffer))] \o <<f.yPos>>

\* Mutant of IIRResetOp: the output history and its cursor are left as they are.
IIRResetOpInputOnly(f) ==
    [f EXCEPT !.xBuffer = [i \in DOMAIN f.xBuffer |-> Zero], !.xPos = 0]

IIRResetOp(f) ==
    [f EXCEPT !.xBuffer = [i \in DOMAIN f.xBuffer |-> Zero],
              !.yBuffer = [i \in DOMAIN f.yBuffer |-> Zero],
              !.xPos = 0,
              !.yPos = 0]

\* The range loop of Process from index i, with the output slice so far.
RECURSIVE IIRProcessLoop(_, _, _, _)
IIRProcessLoop(f, input, i, output) ==
    IF i < ALen(input)
    THEN LET r == IIRTickOp(f, input[i])
         IN  IIRProcessLoop(r.f, input, i + 1, [output EXCEPT ![i] = r.out])
    ELSE [f |-> f, out |-> output]

\* Mutant of IIRProcessOp: the Ticks run on a copy, the filter keeps its state.
IIRProcessOpOnCopy(f, input) ==
    [f |-> f, out |-> IIRProcessLoop(f, input, 0, MakeZeros(ALen(input))).out]

IIRProcessOp(f, input) == IIRProcessLoop(f, input, 0, MakeZeros(ALen(input)))

GetBCoeffs(f) == [i \in DOMAIN f.bCoeffs |-> f.bCoeffs[i]]
GetACoeffs(f) == [i \in DOMAIN f.aCoeffs |-> f.aCoeffs[i]]
GetOrder(f) == f.order

\* Mutant of IsStable: the first-order test is |a1| <= 1.
IsStableClosed(f) ==
    IF ALen(f.aCoeffs) <= 1 THEN TRUE
    ELSE IF ALen(f.aCoeffs) = 2 THEN FLe(FAbs(f.aCoeffs[1]), One)
    ELSE IF ALen(f.aCoeffs) = 3
    THEN LET a1 == f.aCoeffs[1]
             a2 == f.aCoeffs[2]
         IN  /\ FLt(a2, One)
             /\ FLt(Num(-1), a2)
             /\ FLt(FSub(FNeg(a1), One), a2)
             /\ FLt(FSub(a1, One), a2)
    ELSE TRUE

\* Mutant of IsStable: above order 2 every feedback coefficient must be below 1
\* in absolute value.
IsStableBounded(f) ==
    IF ALen(f.aCoeffs) <= 1 THEN TRUE
    ELSE IF ALen(f.aCoeffs) = 2 THEN FLt(FAbs(f.aCoeffs[1]), One)
    ELSE IF ALen(f.aCoeffs) = 3
    THEN LET a1 == f.aCoeffs[1]
             a2 == f.aCoeffs[2]
         IN  /\ FLt(a2, One)
             /\ FLt(Num(-1), a2)
             /\ FLt(FSub(FNeg(a1), One), a2)
             /\ FLt(FSub(a1, One), a2)
    ELSE \A i \in 1 .. (ALen(f.aCoeffs) - 1) : FLt(FAbs(f.aCoeffs[i]), One)

\* Order 0: stable; order 1: |a1| < 1; order 2: the stability triangle;
\* higher orders: reported stable without a test.
IsStable(f) ==
    IF ALen(f.aCoeffs) <= 1 THEN TRUE
    ELSE IF ALen(f.aCoeffs) = 2 THEN FLt(FAbs(f.aCoeffs[1]), One)
    ELSE IF ALen(f.aCoeffs) = 3
    THEN LET a1 == f.aCoeffs[1]
             a2 == f.aCoeffs[2]
         IN  /\ FLt(a2, One)
             /\ FLt(Num(-1), a2)
             /\ FLt(FSub(FNeg(a1), One), a2)
             /\ FLt(FSub(a1, One), a2)
    ELSE TRUE

IIRIsFresh(f) ==
    /\ f.xPos = 0
    /\ f.yPos = 0
    /\ \A i \in DOMAIN f.xBuffer : f.xBuffer[i] = Zero
    /\ \A i \in DOMAIN f.yBuffer : f.yBuffer[i] = Zero

\* The elements of the slice a as a tuple.
AsSeq(a) == [i \in 1 .. ALen(a) |-> a[i - 1]]

\* Every tuple over S of length at most n.
SeqsUpTo(S, n) == UNION {[1 .. k -> S] : k \in 0 .. n}

IIRInitOf(c) ==
    /\ iir = NewIIRFilter(c[1], c[2]).f
    /\ iirRet = [op |-> IF NewIIRFilter(c[1], c[2]).panic THEN "Panic" ELSE "New", input |-> Zero, out |-> Zero, inputs |-> <<>>, outs |-> <<>>, stable |-> FALSE, h |-> CZero]
    /\ iirCfg = c
    /\ iirDesign = NoDesign
    /\ iirIn = <<>>
    /\ iirOut = <<>>
    /\ iirResetFrom = "none"

IIRTick(input) ==
    /\ iirRet.op # "Panic"
    /\ Len(iirIn) < MaxIIRTicks
    /\ LET r == IIRTickOp(iir, input)
       IN  /\ iir' = r.f
           /\ iirRet' = [op |-> "Tick", input |-> input, out |-> r.out,
                         inputs |-> <<>>, outs |-> <<>>, stable |-> FALSE, h |-> CZero]
           /\ iirIn' = Append(iirIn, input)
           /\ iirOut' = Append(iirOut, r.out)
    /\ UNCHANGED <<iirCfg, iirDesign, iirResetFrom>>

IIRProcess(inputs) ==
    /\ iirRet.op # "Panic"
    /\ Len(iirIn) + Len(inputs) <= MaxIIRTicks
    /\ LET r == IIRProcessOp(iir, Arr(inputs))
       IN  /\ iir' = r.f
           /\ iirRet' = [op |-> "Process", input |-> Zero, out |-> Zero,
                         inputs |-> inputs, outs |-> AsSeq(r.out), stable |-> FALSE, h |-> CZero]
           /\ iirIn' = iirIn \o inputs
           /\ iirOut' = iirOut \o AsSeq(r.out)
    /\ UNCHANGED <<iirCfg, iirDesign, iirResetFrom>>

IIRReset ==
    /\ iirRet.op # "Panic"
    /\ iir' = IIRResetOp(iir)
    /\ iirRet' = [op |-> "Reset", input |-> Zero, out |-> Zero, inputs |-> <<>>, outs |-> <<>>,
                  stable |-> FALSE, h |-> CZero]
    /\ iirIn' = <<>>
    /\ iirOut' = <<>>
    /\ iirResetFrom' = IF IIRIsFresh(iir) THEN "clean" ELSE "dirty"
    /\ UNCHANGED <<iirCfg, iirDesign>>

\* IsStable reads the feedback coefficients and assigns nothing.
IIRIsStable ==
    /\ iirRet.op # "Panic"
    /\ iirRet' = [op |-> "IsStable", input |-> Zero, out |-> Zero, inputs |-> <<>>,
                  outs |-> <<>>, stable |-> IsStable(iir), h |-> CZero]
    /\ UNCHANGED <<iir, iirCfg, iirDesign, iirIn, iirOut, iirResetFrom>>

\* <<b, a>> slices for the stability test: Q = 1, Q = 2 inside, on and outside
\* (-1, 1), Q = 3 inside, on and outside the triangle, Q = 4 and Q = 5.
StabilityCoeffSets ==
    { << <<One>>,                 <<One>> >>,
      << <<One, Num(2)>>,         <<Num(2)>> >>,
      << <<One>>,                 <<One, <<3, 10>>>> >>,
      << <<One, One, One>>,       <<One, <<3, 10>>>> >>,
      << <<One>>,                 <<One, One>> >>,
      << <<One, One>>,            <<One, <<3, 2>>>> >>,
      << <<One>>,                 <<One, Num(-1)>> >>,
      << <<One>>,                 <<One, <<-1, 2>>>> >>,
      << <<One>>,                 <<One, Zero>> >>,
      << <<One>>,                 <<Num(2), Num(-3)>> >>,
      << <<One>>,                 <<One, Zero, Zero>> >>,
      << <<One, One>>,            <<One, <<1, 2>>, <<-1, 4>>>> >>,
      << <<One>>,                 <<One, <<3, 2>>, <<3, 4>>>> >>,
      << <<One>>,                 <<One, <<-3, 2>>, <<3, 4>>>> >>,
      << <<One>>,                 <<One, Zero, One>> >>,
      << <<One>>,                 <<One, Zero, Num(-1)>> >>,
      << <<One>>,                 <<One, One, Zero>> >>,
      << <<One>>,                 <<One, Num(-1), Zero>> >>,
      << <<One>>,                 <<One, Num(2), <<3, 4>>>> >>,
      << <<One>>,                 <<One, Num(-2), <<3, 4>>>> >>,
      << <<One, One, One, One>>,  <<One, Zero, <<3, 2>>>> >>,
      << <<One>>,                 <<One, Zero, <<-3, 2>>>> >>,
      << <<One>>,                 <<One, Num(-2), Zero, Zero>> >>,
      << <<One>>,                 <<One, <<1, 2>>, Zero, <<1, 4>>>> >>,
      << <<One, One>>,            <<One, Zero, Zero, Zero, Num(-2)>> >> }

---------------------------------------------------------------------------
(* IIR design factories and the frequency response *)

(* A normalized frequency f is explored at the points where tan(pi*f) is   *)
(* rational: f = atan(u)/pi for u = 1/3, 1/2, 1, 2, 3 (f is written to     *)
(* the nearest 1/400), f = 0, and the small frequency f = eps.  There      *)
(* sin(2*pi*f) = 2u/(1+u^2) and cos(2*pi*f) = (1-u^2)/(1+u^2).  The        *)
(* quality factors include the large value 1/eps.                          *)

Half == <<1, 2>>
FcTiny == <<1, 1, 1>>

\* math.Tan(math.Pi * f); pi is 22/7 at the small frequency.
TanPi(f) ==
    CASE f = Zero          -> Zero
      [] f = FcTiny        -> <<22, 7, 1>>
      [] f = <<41, 400>>   -> <<1, 3>>
      [] f = <<59, 400>>   -> <<1, 2>>
      [] f = <<1, 4>>      -> One
      [] f = <<141, 400>>  -> Num(2)
      [] f = <<159, 400>>  -> Num(3)

\* math.Sin(math.Pi): the float64 nearest to pi is not pi, and its sine is
\* 1.22e-16, a number whose square is absorbed by 1.
SinOfPi == <<1, 1, 1>>

\* math.Sin(2 * math.Pi * f)
Sin2Pi(f) ==
    IF f = Half THEN SinOfPi
    ELSE LET u == TanPi(f)
         IN  FDiv(FMul(Num(2), u), FAdd(One, FMul(u, u)))

\* math.Cos(2 * math.Pi * f)
Cos2Pi(f) ==
    IF f = Half THEN Num(-1)
    ELSE LET u == TanPi(f)
         IN  FDiv(FSub(One, FMul(u, u)), FAdd(One, FMul(u, u)))

\* math.Exp(-2.0 * math.Pi * f), to three decimals.
ExpNeg2Pi(f) ==
    CASE f = FcTiny        -> One
      [] f = <<41, 400>>   -> <<21, 40>>
      [] f = <<59, 400>>   -> <<99, 250>>
      [] f = <<1, 4>>      -> <<26, 125>>
      [] f = <<141, 400>>  -> <<109, 1000>>
      [] f = <<159, 400>>  -> <<41, 500>>

\* The cutoff frequencies and quality factors handed to the factories.
FcValid == {FcTiny, <<41, 400>>, <<59, 400>>, <<1, 4>>, <<141, 400>>, <<159, 400>>}
FcInvalid == {Zero, <<-1, 10>>, Half, <<3, 5>>}
QHuge == <<1, 1, -1>>
QValid == {Half, <<7, 10>>, Num(2), QHuge}
QInvalid == {Zero, Num(-1)}

\* panic(...): no filter is returned.
DesignPanic == [panic |-> TRUE, f |-> NilIIR, bArg |-> <<>>, aArg |-> <<>>]

\* fc <= 0 || fc >= 0.5
BadCutoff(fc) == FLe(fc, Zero) \/ FGe(fc, Half)

\* Mutant of NewFirstOrderLowPass: the cutoff is only tested against 0.
NewFirstOrderLowPassNoNyquist(fc) ==
    IF FLe(fc, Zero) THEN DesignPanic
    ELSE IF fc \notin FcValid THEN NewIIRFilter(<<One>>, <<One>>)
    ELSE LET alpha == TanPi(fc)
             b0 == FDiv(alpha, FAdd(One, alpha))
             b1 == b0
             a1 == FDiv(FSub(One, alpha), FAdd(One, alpha))
         IN  NewIIRFilter(<<b0, b1>>, <<One, FNeg(a1)>>)

NewFirstOrderLowPass(fc) ==
    IF BadCutoff(fc) THEN DesignPanic
    ELSE LET alpha == TanPi(fc)
             b0 == FDiv(alpha, FAdd(One, alpha))
             b1 == b0
             a1 == FDiv(FSub(One, alpha), FAdd(One, alpha))
         IN  NewIIRFilter(<<b0, b1>>, <<One, FNeg(a1)>>)

NewFirstOrderHighPass(fc) ==
    IF BadCutoff(fc) THEN DesignPanic
    ELSE LET alpha == TanPi(fc)
             b0 == FDiv(One, FAdd(One, alpha))
             b1 == FNeg(b0)
             a1 == FDiv(FSub(One, alpha), FAdd(One, alpha))
         IN  NewIIRFilter(<<b0, b1>>, <<One, FNeg(a1)>>)

\* The feedback side shared by the three second-order factories:
\* a0 = 1 + alpha, a1 = -2*cos(w0), a2 = 1 - alpha, with alpha = sin(w0)/(2*Q).
BiquadAlpha(fc, Q) == FDiv(Sin2Pi(fc), FMul(Num(2), Q))
BiquadA0(fc, Q) == FAdd(One, BiquadAlpha(fc, Q))
BiquadA1(fc, Q) == FDiv(FMul(Num(-2), Cos2Pi(fc)), BiquadA0(fc, Q))
BiquadA2(fc, Q) == FDiv(FSub(One, BiquadAlpha(fc, Q)), BiquadA0(fc, Q))

NewSecondOrderLowPass(fc, Q) ==
    IF BadCutoff(fc) THEN DesignPanic
    ELSE IF FLe(Q, Zero) THEN DesignPanic
    ELSE LET cosW0 == Cos2Pi(fc)
             a0 == BiquadA0(fc, Q)
             b0 == FDiv(FDiv(FSub(One, cosW0), Num(2)), a0)
             b1 == FDiv(FSub(One, cosW0), a0)
             b2 == FDiv(FDiv(FSub(One, cosW0), Num(2)), a0)
         IN  NewIIRFilter(<<b0, b1, b2>>, <<One, BiquadA1(fc, Q), BiquadA2(fc, Q)>>)

NewSecondOrderHighPass(fc, Q) ==
    IF BadCutoff(fc) THEN DesignPanic
    ELSE IF FLe(Q, Zero) THEN DesignPanic
    ELSE LET cosW0 == Cos2Pi(fc)
             a0 == BiquadA0(fc, Q)
             b0 == FDiv(FDiv(FAdd(One, cosW0), Num(2)), a0)
             b1 == FDiv(FNeg(FAdd(One, cosW0)), a0)
             b2 == FDiv(FDiv(FAdd(One, cosW0), Num(2)), a0)
         IN  NewIIRFilter(<<b0, b1, b2>>, <<One, BiquadA1(fc, Q), BiquadA2(fc, Q)>>)

NewFirstOrderLowPassExp(fc) ==
    IF BadCutoff(fc) THEN DesignPanic
    ELSE LET alpha == FSub(One, ExpNeg2Pi(fc))
         IN  NewIIRFilter(<<alpha>>, <<One, FNeg(FSub(One, alpha))>>)

NewFirstOrderHighPassExp(fc) ==
    IF BadCutoff(fc) THEN DesignPanic
    ELSE LET alpha == FSub(One, ExpNeg2Pi(fc))
             b0 == FDiv(FAdd(One, alpha), Num(2))
             b1 == FNeg(b0)
             a1 == FNeg(FSub(One, alpha))
         IN  NewIIRFilter(<<b0, b1>>, <<One, a1>>)

NewSecondOrderBandPass(fc, Q) ==
    IF BadCutoff(fc) THEN DesignPanic
    ELSE IF FLe(Q, Zero) THEN DesignPanic
    ELSE LET alpha == BiquadAlpha(fc, Q)
             a0 == BiquadA0(fc, Q)
             b0 == FDiv(alpha, a0)
             b1 == FDiv(Zero, a0)
             b2 == FDiv(FNeg(alpha), a0)
         IN  NewIIRFilter(<<b0, b1, b2>>, <<One, BiquadA1(fc, Q), BiquadA2(fc, Q)>>)

FirstOrderKinds ==
    {"FirstOrderLowPass", "FirstOrderHighPass", "FirstOrderLowPassExp", "FirstOrderHighPassExp"}
SecondOrderKinds == {"SecondOrderLowPass", "SecondOrderHighPass", "SecondOrderBandPass"}

\* Every explored factory call; Q is 0 where the factory takes none.
Designs ==
    [kind : FirstOrderKinds, fc : FcValid \cup FcInvalid, Q : {Zero}] \cup
    [kind : SecondOrderKinds, fc : FcValid \cup FcInvalid, Q : QValid \cup QInvalid]

\* The factory call d.
Design(d) ==
    CASE d.kind = "FirstOrderLowPass"     -> NewFirstOrderLowPass(d.fc)
      [] d.kind = "FirstOrderHighPass"    -> NewFirstOrderHighPass(d.fc)
      [] d.kind = "FirstOrderLowPassExp"  -> NewFirstOrderLowPassExp(d.fc)
      [] d.kind = "FirstOrderHighPassExp" -> NewFirstOrderHighPassExp(d.fc)
      [] d.kind = "SecondOrderLowPass"    -> NewSecondOrderLowPass(d.fc, d.Q)
      [] d.kind = "SecondOrderHighPass"   -> NewSecondOrderHighPass(d.fc, d.Q)
      [] d.kind = "SecondOrderBandPass"   -> NewSecondOrderBandPass(d.fc, d.Q)

IIRDesignInitOf(d) ==
    LET r == Design(d)
    IN  /\ iir = r.f
        /\ iirRet = [op |-> IF r.panic THEN "Panic" ELSE "New", input |-> Zero, out |-> Zero,
                     inputs |-> <<>>, outs |-> <<>>, stable |-> FALSE, h |-> CZero]
        /\ iirCfg = <<AsSeq(r.bArg), AsSeq(r.aArg)>>
        /\ iirDesign = d
        /\ iirIn = <<>>
        /\ iirOut = <<>>
        /\ iirResetFrom = "none"

\* The value of an expression, computed once: S is the set holding it.
Only(S) == CHOOSE v \in S : TRUE

\* complex128 arithmetic; the operands are values, computed before the call.
CAdd(x, y) == Only({<<FAdd(a[1], b[1]), FAdd(a[2], b[2])>> : a \in {x}, b \in {y}})
CMul(x, y) ==
    Only({<<FSub(FMul(a[1], b[1]), FMul(a[2], b[2])),
            FAdd(FMul(a[1], b[2]), FMul(a[2], b[1]))>> : a \in {x}, b \in {y}})

\* n / m, by the ratio of the smaller to the larger part of m.
SmithDiv(n, m) ==
    IF FGe(FAbs(m[1]), FAbs(m[2]))
    THEN LET ratio == FDiv(m[2], m[1])
             denom == FAdd(m[1], FMul(ratio, m[2]))
         IN  <<FDiv(FAdd(n[1], FMul(n[2], ratio)), denom),
               FDiv(FSub(n[2], FMul(n[1], ratio)), denom)>>
    ELSE LET ratio == FDiv(m[1], m[2])
             denom == FAdd(m[2], FMul(ratio, m[1]))
         IN  <<FDiv(FAdd(FMul(n[1], ratio), n[2]), denom),
               FDiv(FSub(FMul(n[2], ratio), n[1]), denom)>>

IsInf(x) == x = PosInf \/ x = NegInf
IsFinite(x) == x[2] # 0
\* 1 with the sign of x for an infinite x, 0 otherwise.
InfToOne(x) == IF IsInf(x) THEN Num(x[1]) ELSE Zero

\* The quotient r that Smith's method gave for n / m, and when both its parts
\* are NaN the infinities and zeros of C99 G.5.1 (a zero sum of floats is +0).
QuotientOrSpecial(n, m, r) ==
    LET a == n[1]
        b == n[2]
        c == m[1]
        d == m[2]
    IN  IF ~(IsNaN(r[1]) /\ IsNaN(r[2])) THEN r
        ELSE IF m = CZero /\ (~IsNaN(a) \/ ~IsNaN(b))
        THEN <<FMul(PosInf, a), FMul(PosInf, b)>>
        ELSE IF (IsInf(a) \/ IsInf(b)) /\ IsFinite(c) /\ IsFinite(d)
        THEN LET a1 == InfToOne(a)
                 b1 == InfToOne(b)
             IN  <<FMul(PosInf, FAdd(FMul(a1, c), FMul(b1, d))),
                   FMul(PosInf, FSub(FMul(b1, c), FMul(a1, d)))>>
        ELSE IF (IsInf(c) \/ IsInf(d)) /\ IsFinite(a) /\ IsFinite(b)
        THEN LET c1 == InfToOne(c)
                 d1 == InfToOne(d)
             IN  <<FMul(Zero, FAdd(FMul(a, c1), FMul(b, d1))),
                   FMul(Zero, FSub(FMul(b, c1), FMul(a, d1)))>>
        ELSE r

\* The complex128 quotient n / m.
CDiv(n, m) ==
    Only({Only({QuotientOrSpecial(a, b, r) : r \in {SmithDiv(a, b)}}) :
             a \in {n}, b \in {m}})

\* cmplx.Abs: math.Hypot, which is +Inf as soon as one part is infinite.
CAbs(x) ==
    Only({IF IsInf(a[1]) \/ IsInf(a[2]) THEN FSqrt(PosInf)
          ELSE FSqrt(FAdd(FMul(a[1], a[1]), FMul(a[2], a[2]))) : a \in {x}})

\* The power of z is not advanced.
PolySumStalePower(coeffs, i, z, zPower, sum) ==
    LET n == ALen(coeffs) - i
    IN  IF n > 0
        THEN CAdd(sum, CMul(<<FMul(Num(n), coeffs[i]), Zero>>, zPower))
        ELSE sum

\* sum += complex(c, 0) * zPower; zPower *= z  over the coefficients from index i.
RECURSIVE PolySum(_, _, _, _, _)
PolySum(coeffs, i, z, zPower, sum) ==
    IF i < ALen(coeffs)
    THEN PolySum(coeffs, i + 1, z, CMul(zPower, z),
                 CAdd(sum, CMul(<<coeffs[i], Zero>>, zPower)))
    ELSE sum

\* An out-of-range frequency is clamped to [0, 0.5].
GetFrequencyResponseClamped(f, freq) ==
    LET q    == IF FLt(freq, Zero) THEN Zero ELSE IF FLt(Half, freq) THEN Half ELSE freq
        z    == <<Cos2Pi(q), Sin2Pi(q)>>
        bSum == PolySum(f.bCoeffs, 0, z, <<One, Zero>>, CZero)
        aSum == PolySum(f.aCoeffs, 0, z, <<One, Zero>>, CZero)
    IN  [panic |-> FALSE,
         h |-> IF FEq(aSum[1], Zero) /\ FEq(aSum[2], Zero)
               THEN <<PosInf, Zero>>
               ELSE CDiv(bSum, aSum)]

GetFrequencyResponse(f, freq) ==
    IF FLt(freq, Zero) \/ FLt(Half, freq)
    THEN [panic |-> TRUE, h |-> CZero]
    ELSE LET z    == <<Cos2Pi(freq), Sin2Pi(freq)>>
             bSum == PolySum(f.bCoeffs, 0, z, <<One, Zero>>, CZero)
             aSum == PolySum(f.aCoeffs, 0, z, <<One, Zero>>, CZero)
         IN  [panic |-> FALSE,
              h |-> IF FEq(aSum[1], Zero) /\ FEq(aSum[2], Zero)
                    THEN <<PosInf, Zero>>
                    ELSE CDiv(bSum, aSum)]

IIRGetFrequencyResponse(freq) ==
    /\ iirRet.op # "Panic"
    /\ LET r == GetFrequencyResponse(iir, freq)
       IN  iirRet' = [op |-> IF r.panic THEN "Panic" ELSE "GetFrequencyResponse",
                      input |-> freq, out |-> Zero, inputs |-> <<>>, outs |-> <<>>,
                      stable |-> FALSE, h |-> r.h]
    /\ UNCHANGED <<iir, iirCfg, iirDesign, iirIn, iirOut, iirResetFrom>>

\* sum += complex(c * float64(i), 0) * zPower / z  for i > 0; zPower *= z.
RECURSIVE PolyPrimeSum(_, _, _, _, _)
PolyPrimeSum(coeffs, i, z, zPower, sum) ==
    IF i < ALen(coeffs)
    THEN PolyPrimeSum(coeffs, i + 1, z, CMul(zPower, z),
                      IF i > 0
                      THEN CAdd(sum, CDiv(CMul(<<FMul(coeffs[i], Num(i)), Zero>>, zPower), z))
                      ELSE sum)
    ELSE sum

\* r < 1e-12 for r = cmplx.Abs(h).  The square of a non-zero n/d with d below
\* 2^31 is above 1e-24; a value scaled by eps is below 1e-12.
BelowNullLimit(r) ==
    LET x == r.sq
    IN  IF IsNaN(x) \/ x[2] = 0 THEN FALSE
        ELSE IF x[1] = 0 THEN TRUE
        ELSE x[1] > 0 /\ Lvl(x) > 0

GetGroupDelay(f, freq) ==
    IF FLt(freq, Zero) \/ FLt(Half, freq)
    THEN [panic |-> TRUE, delay |-> Zero]
    ELSE LET z == <<Cos2Pi(freq), Sin2Pi(freq)>>
             bSum == PolySum(f.bCoeffs, 0, z, <<One, Zero>>, CZero)
             bPrimeSum == PolyPrimeSum(f.bCoeffs, 0, z, <<One, Zero>>, CZero)
             aSum == PolySum(f.aCoeffs, 0, z, <<One, Zero>>, CZero)
             aPrimeSum == PolyPrimeSum(f.aCoeffs, 0, z, <<One, Zero>>, CZero)
             h == CDiv(bSum, aSum)
             hDeriv == CDiv(CAdd(CMul(bPrimeSum, aSum),
                                 <<FNeg(CMul(bSum, aPrimeSum)[1]),
                                   FNeg(CMul(bSum, aPrimeSum)[2])>>),
                            CMul(aSum, aSum))
         IN  IF BelowNullLimit(CAbs(h))
             THEN [panic |-> FALSE, delay |-> Zero]
             ELSE [panic |-> FALSE, delay |-> CDiv(CMul(z, hDeriv), h)[1]]

IIRGetGroupDelay(freq) ==
    /\ iirRet.op # "Panic"
    /\ LET r == GetGroupDelay(iir, freq)
       IN  iirRet' = [op |-> IF r.panic THEN "Panic" ELSE "GetGroupDelay",
                      input |-> freq, out |-> r.delay, inputs |-> <<>>, outs |-> <<>>,
                      stable |-> FALSE, h |-> CZero]
    /\ UNCHANGED <<iir, iirCfg, iirDesign, iirIn, iirOut, iirResetFrom>>

\* <<b, a>> slices for the frequency-domain queries: a pole at freq 0, a pole at
\* Nyquist, a null at 0, a null at Nyquist, 0/0 at 0, a[0] # 1, P > Q, order 2.
ResponseCoeffSets ==
    { << <<One>>,                   <<One, <<-1, 2>>>> >>,
      << <<One>>,                   <<One, Num(-1)>> >>,
      << <<One>>,                   <<One, One>> >>,
      << <<One, Num(-1)>>,          <<One>> >>,
      << <<One, One>>,              <<One, <<1, 2>>>> >>,
      << <<One, Num(-1)>>,          <<One, Num(-1)>> >>,
      << <<Num(2), One>>,           <<Num(4), Num(2)>> >>,
      << <<One, Num(2), Num(3)>>,   <<One, <<1, 2>>>> >>,
      << <<<<1, 2>>, <<1, 4>>>>,    <<One, <<1, 2>>, <<-1, 4>>>> >> }

\* The frequencies queried: both endpoints, an interior point, and one on each
\* side outside [0, 0.5].
ResponseFreqs == {Zero, <<59, 400>>, Half, <<-1, 10>>, <<3, 5>>}

\* Largest number of Ticks before a frequency-domain query.
MaxResponseTicks == 2

---------------------------------------------------------------------------
(* GoertzelFilter *)

(* Angles are kept as rational multiples of pi.  A value that is a square  *)
(* root (a sine, a magnitude) is kept as [sgn, sq]: the number             *)
(* sgn * sqrt(sq).  The configurations explored are those whose bin angle  *)
(* has a rational cosine.                                                  *)

\* math.Cos(t * pi), 0 <= t < 2.
CosPi(t) ==
    CASE t = Zero    -> One
      [] t = <<1, 3>> -> <<1, 2>>
      [] t = <<1, 2>> -> Zero
      [] t = <<2, 3>> -> <<-1, 2>>
      [] t = One     -> Num(-1)
      [] t = <<4, 3>> -> <<-1, 2>>
      [] t = <<3, 2>> -> Zero
      [] t = <<5, 3>> -> <<1, 2>>

\* math.Sin(t * pi), 0 <= t < 2.
SinPi(t) ==
    CASE t = Zero    -> Root(0, Zero)
      [] t = <<1, 3>> -> Root(1, <<3, 4>>)
      [] t = <<1, 2>> -> Root(1, One)
      [] t = <<2, 3>> -> Root(1, <<3, 4>>)
      [] t = One     -> Root(0, Zero)
      [] t = <<4, 3>> -> Root(-1, <<3, 4>>)
      [] t = <<3, 2>> -> Root(-1, One)
      [] t = <<5, 3>> -> Root(-1, <<3, 4>>)

NoError == [kind |-> "nil", reason |-> ""]
InvalidParameterError(param, reason) ==
    [kind |-> "InvalidParameter", reason |-> reason]
InvalidStateError(reason) == [kind |-> "InvalidState", reason |-> reason]

\* The nil *GoertzelFilter.
GNil ==
    [nil |-> TRUE, k |-> 0, w |-> Zero, cosW |-> Zero, sinW |-> Root(0, Zero),
     q1 |-> Zero, q2 |-> Zero, n |-> 0, totalN |-> 0, coeff |-> Zero]

\* <<freq, samplingRate, totalN>> passed to the constructor; the last six are invalid.
GoertzelConfigs ==
    { <<One, Num(4), 4>>,
      <<Num(3), Num(8), 4>>,
      <<One, Num(6), 6>>,
      <<One, Num(3), 3>>,
      <<One, Num(8), 2>>,
      <<Num(2), Num(5), 2>>,
      <<One, Num(4), 1>>,
      <<Zero, Num(4), 4>>,
      <<Num(-1), Num(4), 4>>,
      <<One, Zero, 4>>,
      <<One, Num(4), 0>>,
      <<Num(2), Num(4), 4>>,
      <<Num(3), Num(4), 4>> }

\* Mutant of BinIndex: the bin is truncated, not rounded.
BinIndexTruncated(freq, samplingRate, totalN) ==
    LET k == FTrunc(FDiv(FMul(Num(totalN), freq), samplingRate))
    IN  IF k >= totalN THEN totalN - 1 ELSE k

\* k := int(0.5 + float64(totalN)*freq/samplingRate), limited to totalN - 1.
BinIndex(freq, samplingRate, totalN) ==
    LET k == FTrunc(FAdd(<<1, 2>>, FDiv(FMul(Num(totalN), freq), samplingRate)))
    IN  IF k >= totalN THEN totalN - 1 ELSE k

NewGoertzelFilter(freq, samplingRate, totalN) ==
    IF FLe(freq, Zero)
    THEN [gf |-> GNil, err |-> InvalidParameterError("freq", "frequency must be positive")]
    ELSE IF FLe(samplingRate, Zero)
    THEN [gf |-> GNil,
          err |-> InvalidParameterError("samplingRate", "sampling rate must be positive")]
    ELSE IF totalN <= 0
    THEN [gf |-> GNil,
          err |-> InvalidParameterError("totalN", "total samples must be positive")]
    ELSE IF FGe(freq, FDiv(samplingRate, Num(2)))
    THEN [gf |-> GNil,
          err |-> InvalidParameterError("freq",
                     "frequency must be less than Nyquist frequency (samplingRate/2)")]
    ELSE LET k    == BinIndex(freq, samplingRate, totalN)
             w    == FDiv(FMul(Num(2), Num(k)), Num(totalN))
             cosW == CosPi(w)
             sinW == SinPi(w)
         IN  [gf |-> [nil |-> FALSE, k |-> k, w |-> w, cosW |-> cosW, sinW |-> sinW,
                      coeff |-> FMul(Num(2), cosW),
                      q1 |-> Zero, q2 |-> Zero, n |-> 0, totalN |-> totalN],
              err |-> NoError]

\* Mutant of GoertzelStep: q[n-2] is added instead of subtracted.
GoertzelStepPlus(g, input) == FAdd(FAdd(input, FMul(g.coeff, g.q1)), g.q2)

\* The recurrence q0 = input + coeff*q1 - q2.
GoertzelStep(g, input) == FSub(FAdd(input, FMul(g.coeff, g.q1)), g.q2)

\* Mutant of GProcessOp: the capacity test is n > totalN.
GProcessOpOffByOne(g, input) ==
    IF g.nil
    THEN [gf |-> g, err |-> InvalidStateError("filter is not initialized")]
    ELSE IF g.n > g.totalN
    THEN [gf |-> g, err |-> InvalidStateError("all samples have already been processed")]
    ELSE [gf |-> [g EXCEPT !.q2 = g.q1, !.q1 = GoertzelStep(g, input), !.n = g.n + 1],
          err |-> NoError]

\* Mutant of GProcessOp: a complete detector reports the error but still
\* folds the sample into q1, q2.
GProcessOpSliding(g, input) ==
    IF g.nil
    THEN [gf |-> g, err |-> InvalidStateError("filter is not initialized")]
    ELSE IF g.n >= g.totalN
    THEN [gf |-> [g EXCEPT !.q2 = g.q1, !.q1 = GoertzelStep(g, input)],
          err |-> InvalidStateError("all samples have already been processed")]
    ELSE [gf |-> [g EXCEPT !.q2 = g.q1, !.q1 = GoertzelStep(g, input), !.n = g.n + 1],
          err |-> NoError]

GProcessOp(g, input) ==
    IF g.nil
    THEN [gf |-> g, err |-> InvalidStateError("filter is not initialized")]
    ELSE IF g.n >= g.totalN
    THEN [gf |-> g, err |-> InvalidStateError("all samples have already been processed")]
    ELSE [gf |-> [g EXCEPT !.q2 = g.q1, !.q1 = GoertzelStep(g, input), !.n = g.n + 1],
          err |-> NoError]

\* Mutant of GResetOp: q2 is not cleared.
GResetOpKeepsQ2(g) ==
    IF g.nil
    THEN [gf |-> g, err |-> InvalidStateError("filter is not initialized")]
    ELSE [gf |-> [g EXCEPT !.q1 = Zero, !.n = 0], err |-> NoError]

GResetOp(g) ==
    IF g.nil
    THEN [gf |-> g, err |-> InvalidStateError("filter is not initialized")]
    ELSE [gf |-> [g EXCEPT !.q1 = Zero, !.q2 = Zero, !.n = 0], err |-> NoError]

\* Mutant of ScaledRoot: the factor 2 is missing.
ScaledRootHalved(magnitudeSquared, totalN) ==
    FSqrt(FDiv(magnitudeSquared, FMul(Num(totalN), Num(totalN))))

\* 2 * math.Sqrt(magnitudeSquared) / float64(totalN)
ScaledRoot(magnitudeSquared, totalN) ==
    FSqrt(FDiv(FMul(Num(4), magnitudeSquared), FMul(Num(totalN), Num(totalN))))

\* Mutant of GetMagnitude: the readout is refused until the block is complete.
GetMagnitudeWhenComplete(g) ==
    IF g.nil
    THEN [val |-> Root(0, Zero), err |-> InvalidStateError("filter is not initialized")]
    ELSE IF g.n < g.totalN
    THEN [val |-> Root(0, Zero),
          err |-> InvalidStateError("no samples have been processed yet")]
    ELSE LET magnitudeSquared ==
                 FSub(FAdd(FMul(g.q1, g.q1), FMul(g.q2, g.q2)),
                      FMul(FMul(g.coeff, g.q1), g.q2))
         IN  IF FLt(magnitudeSquared, Zero)
             THEN [val |-> Root(0, Zero), err |-> NoError]
             ELSE [val |-> ScaledRoot(magnitudeSquared, g.totalN), err |-> NoError]

GetMagnitude(g) ==
    IF g.nil
    THEN [val |-> Root(0, Zero), err |-> InvalidStateError("filter is not initialized")]
    ELSE IF g.n = 0
    THEN [val |-> Root(0, Zero),
          err |-> InvalidStateError("no samples have been processed yet")]
    ELSE LET magnitudeSquared ==
                 FSub(FAdd(FMul(g.q1, g.q1), FMul(g.q2, g.q2)),
                      FMul(FMul(g.coeff, g.q1), g.q2))
         IN  IF FLt(magnitudeSquared, Zero)
             THEN [val |-> Root(0, Zero), err |-> NoError]
             ELSE [val |-> ScaledRoot(magnitudeSquared, g.totalN), err |-> NoError]

\* Mutant of GetMagnitudeOptimized: the real part is q1 + q2*cosW.
GetMagnitudeOptimizedPlus(g) ==
    IF g.nil
    THEN [val |-> Root(0, Zero), err |-> InvalidStateError("filter is not initialized")]
    ELSE IF g.n = 0
    THEN [val |-> Root(0, Zero),
          err |-> InvalidStateError("no samples have been processed yet")]
    ELSE LET realPart == FAdd(g.q1, FMul(g.q2, g.cosW))
             imagSq   == FMul(FMul(g.q2, g.q2), g.sinW.sq)
             magnitudeSquared == FAdd(FMul(realPart, realPart), imagSq)
         IN  IF FLt(magnitudeSquared, Zero)
             THEN [val |-> Root(0, Zero), err |-> NoError]
             ELSE [val |-> ScaledRoot(magnitudeSquared, g.totalN), err |-> NoError]

GetMagnitudeOptimized(g) ==
    IF g.nil
    THEN [val |-> Root(0, Zero), err |-> InvalidStateError("filter is not initialized")]
    ELSE IF g.n = 0
    THEN [val |-> Root(0, Zero),
          err |-> InvalidStateError("no samples have been processed yet")]
    ELSE LET realPart == FSub(g.q1, FMul(g.q2, g.cosW))
             \* imagPart*imagPart with imagPart = q2 * sinW
             imagSq   == FMul(FMul(g.q2, g.q2), g.sinW.sq)
             magnitudeSquared == FAdd(FMul(realPart, realPart), imagSq)
         IN  IF FLt(magnitudeSquared, Zero)
             THEN [val |-> Root(0, Zero), err |-> NoError]
             ELSE [val |-> ScaledRoot(magnitudeSquared, g.totalN), err |-> NoError]

\* magnitude * magnitude / 2
GetPower(g) ==
    LET m == GetMagnitude(g)
    IN  IF m.err # NoError
        THEN [val |-> Zero, err |-> m.err]
        ELSE [val |-> FDiv(m.val.sq, Num(2)), err |-> NoError]

IsComplete(g) == IF g.nil THEN FALSE ELSE g.n >= g.totalN
GetProcessedCount(g) == IF g.nil THEN 0 ELSE g.n
GetCoefficient(g) == IF g.nil THEN 0 ELSE g.k

\* No test signal is attached to the detector.
NoTone == [amp |-> Zero, bin |-> 0, shift |-> 0]

GInitOf(c) ==
    LET r == NewGoertzelFilter(c[1], c[2], c[3])
    IN  /\ gf = r.gf
        /\ gRet = [op |-> "New", input |-> Zero, err |-> r.err, val |-> Zero]
        /\ gCfg = c
        /\ gIn = <<>>
        /\ gResetFrom = "none"
        /\ gTone = NoTone

GProcess(input) ==
    LET r == GProcessOp(gf, input)
    IN  /\ gf' = r.gf
        /\ gRet' = [op |-> "Process", input |-> input, err |-> r.err, val |-> Zero]
        /\ gIn' = IF r.err = NoError THEN Append(gIn, input) ELSE gIn
        /\ UNCHANGED <<gCfg, gResetFrom, gTone>>

GReset ==
    LET r == GResetOp(gf)
    IN  /\ gf' = r.gf
        /\ gRet' = [op |-> "Reset", input |-> Zero, err |-> r.err, val |-> Zero]
        /\ gIn' = IF r.err = NoError THEN <<>> ELSE gIn
        /\ gResetFrom' = IF r.err # NoError THEN gResetFrom
                         ELSE IF IsComplete(gf) THEN "complete"
                         ELSE IF gf.n > 0 THEN "dirty"
                         ELSE "clean"
        /\ UNCHANGED <<gCfg, gTone>>

\* The three readouts: a value or an error is returned, no field is assigned.
GGetMagnitude ==
    LET r == GetMagnitude(gf)
    IN  /\ gRet' = [op |-> "GetMagnitude", input |-> Zero, err |-> r.err, val |-> r.val]
        /\ UNCHANGED <<gf, gCfg, gIn, gResetFrom, gTone>>

GGetMagnitudeOptimized ==
    LET r == GetMagnitudeOptimized(gf)
    IN  /\ gRet' = [op |-> "GetMagnitudeOptimized", input |-> Zero,
                    err |-> r.err, val |-> r.val]
        /\ UNCHANGED <<gf, gCfg, gIn, gResetFrom, gTone>>

GGetPower ==
    LET r == GetPower(gf)
    IN  /\ gRet' = [op |-> "GetPower", input |-> Zero, err |-> r.err, val |-> r.val]
        /\ UNCHANGED <<gf, gCfg, gIn, gResetFrom, gTone>>

(* A detector fed by a signal generator: totalN samples of one sinusoid.    *)
(* The sinusoid has amplitude amp and frequency bin*samplingRate/totalN,   *)
(* and starts shift samples into its period.                               *)

\* Detectors on a bin 0 < k < totalN/2.
ToneConfigs ==
    { <<One, Num(3), 3>>,
      <<One, Num(4), 4>>,
      <<One, Num(6), 6>>,
      <<Num(2), Num(6), 6>>,
      <<Num(2), Num(8), 8>>,
      <<Num(2), Num(12), 12>>,
      <<Num(3), Num(12), 12>>,
      <<Num(4), Num(12), 12>> }

ToneAmps == {One, Num(2), <<1, 2>>}

\* The bins 0 .. totalN/2 whose samples are rational: bin/totalN in {0, 1/6, 1/4, 1/3, 1/2}.
ToneBins(totalN) ==
    {m \in 0 .. (totalN \div 2) : Rat(m, totalN) \in {Zero, <<1, 6>>, <<1, 4>>, <<1, 3>>, <<1, 2>>}}

TonesFor(totalN) ==
    [amp : ToneAmps, bin : ToneBins(totalN), shift : 0 .. (totalN - 1)]

\* The angle 2*pi*bin*i/totalN as a multiple of pi in [0, 2).
BinAngle(bin, i, totalN) == Rat((2 * bin * i) % (2 * totalN), totalN)

\* signal[i] = amplitude * sinusoid(2*pi*freq*i/samplingRate + phase)
ToneSample(tone, totalN, i) ==
    FMul(tone.amp, CosPi(BinAngle(tone.bin, i + tone.shift, totalN)))

GToneInitOf(c, tone) ==
    LET r == NewGoertzelFilter(c[1], c[2], c[3])
    IN  /\ gf = r.gf
        /\ gRet = [op |-> "New", input |-> Zero, err |-> r.err, val |-> Zero]
        /\ gCfg = c
        /\ gIn = <<>>
        /\ gResetFrom = "none"
        /\ gTone = tone

\* for _, sample := range signal { filter.Process(sample) }: one iteration.
GFeedTone ==
    /\ Len(gIn) < gf.totalN
    /\ GProcess(ToneSample(gTone, gf.totalN, Len(gIn)))

---------------------------------------------------------------------------
(* Slices held by the caller, and two engine instances *)

(* A slice names an array.  The arrays the caller passes to constructors   *)
(* are kept by name in slices; an engine field that holds the caller's     *)
(* slice holds the name, and reads the array as it is at the time of the   *)
(* read.  An array made inside a constructor or an accessor (make, append  *)
(* to an empty slice) is named by nothing else and is kept by value.       *)

SliceNames == {"c", "d", "h"}

\* The arrays the caller starts with: two with first element 1, one without.
InitSlices ==
    [c |-> Arr(<<One, <<1, 2>>>>), d |-> Arr(<<Num(2), One>>), h |-> Arr(<<One, Num(-1)>>)]

EngNames == {"A", "B"}
NoEng == [kind |-> "none", f |-> <<>>, args |-> {}, cfg |-> <<>>, log |-> <<>>,
          outs |-> <<>>, got |-> <<>>]

\* Largest number of calls explored on one instance after its construction.
MaxShareCalls == 2

\* The samples fed to the two instances, the value the caller writes into a
\* slice, and the detector configurations.
ShareSamples == {One, <<-1, 2>>}
CallerValue == Num(5)
ShareGoertzelConfigs == {<<One, Num(4), 4>>}

\* The struct of a FIR instance with the coefficients its slice names now.
FIRView(f) == [f EXCEPT !.coeffs = slices[f.coeffs]]
EngView(e) == IF engs[e].kind = "FIR" THEN FIRView(engs[e].f) ELSE engs[e].f

\* NewFIRFilter(s): the struct keeps the slice s itself.
ShareNewFIR(e, s) ==
    /\ engs[e].kind = "none"
    /\ LET r == NewFIRFilter(AsSeq(slices[s]))
       IN  engs' = [engs EXCEPT ![e] =
                       [kind |-> "FIR", f |-> [r.f EXCEPT !.coeffs = s], args |-> {s},
                        cfg |-> <<AsSeq(slices[s])>>, log |-> <<>>, outs |-> <<>>,
                        got |-> <<>>]]
    /\ UNCHANGED slices

\* NewIIRFilter(sb, sa): the two slices are normalized where they are, and the
\* struct keeps copies of them.
ShareNewIIR(e, sb, sa) ==
    /\ engs[e].kind = "none"
    /\ sb # sa
    /\ LET r == NewIIRFilter(AsSeq(slices[sb]), AsSeq(slices[sa]))
       IN  /\ engs' = [engs EXCEPT ![e] =
                          [kind |-> "IIR", f |-> r.f, args |-> {sb, sa},
                           cfg |-> <<AsSeq(slices[sb]), AsSeq(slices[sa])>>,
                           log |-> <<>>, outs |-> <<>>, got |-> <<>>]]
           /\ slices' = [slices EXCEPT ![sb] = r.bArg, ![sa] = r.aArg]

ShareNewGoertzel(e, c) ==
    /\ engs[e].kind = "none"
    /\ engs' = [engs EXCEPT ![e] =
                   [kind |-> "Goertzel", f |-> NewGoertzelFilter(c[1], c[2], c[3]).gf,
                    args |-> {},
                    cfg |-> c, log |-> <<>>, outs |-> <<>>, got |-> <<>>]]
    /\ UNCHANGED slices

\* One call on an instance: what it leaves in the struct and what it returns.
\* f is the struct with its coefficients read.
EngCall(kind, f, call) ==
    CASE kind = "FIR" /\ call[1] = "Tick" ->
             [f |-> FIRTickOp(f, call[2]).f, out |-> FIRTickOp(f, call[2]).out]
      [] kind = "FIR" /\ call[1] = "Reset" -> [f |-> FIRResetOp(f), out |-> Zero]
      [] kind = "FIR" /\ call[1] = "Get" -> [f |-> f, out |-> GetCoefficients(f)]
      [] kind = "IIR" /\ call[1] = "Tick" ->
             [f |-> IIRTickOp(f, call[2]).f, out |-> IIRTickOp(f, call[2]).out]
      [] kind = "IIR" /\ call[1] = "Reset" -> [f |-> IIRResetOp(f), out |-> Zero]
      [] kind = "IIR" /\ call[1] = "Get" ->
             [f |-> f, out |-> IF call[2] = "b" THEN GetBCoeffs(f) ELSE GetACoeffs(f)]
      [] kind = "Goertzel" /\ call[1] = "Tick" ->
             [f |-> GProcessOp(f, call[2]).gf, out |-> GProcessOp(f, call[2]).err]
      [] kind = "Goertzel" /\ call[1] = "Reset" ->
             [f |-> GResetOp(f).gf, out |-> GResetOp(f).err]
      [] kind = "Goertzel" /\ call[1] = "Get" -> [f |-> f, out |-> GetMagnitude(f)]

\* The calls an instance of a kind accepts.
CallsOf(kind) ==
    {<<"Tick", x>> : x \in ShareSamples} \cup {<<"Reset", Zero>>} \cup
    (CASE kind = "FIR" -> {<<"Get", "coeffs">>}
       [] kind = "IIR" -> {<<"Get", "b">>, <<"Get", "a">>}
       [] kind = "Goertzel" -> {<<"Get", "magnitude">>}
       [] OTHER -> {})

\* A Tick, Process, Reset, accessor or readout call on instance e.  Only the
\* buffers, cursors and counters of e are assigned; a slice returned by an
\* accessor is kept in got for the caller.
ShareCall(e, call) ==
    /\ engs[e].kind # "none"
    /\ Len(engs[e].log) < MaxShareCalls
    /\ call \in CallsOf(engs[e].kind)
    /\ LET r == EngCall(engs[e].kind, EngView(e), call)
           f2 == IF engs[e].kind = "FIR"
                 THEN [r.f EXCEPT !.coeffs = engs[e].f.coeffs]
                 ELSE r.f
       IN  engs' = [engs EXCEPT ![e].f = f2,
                                ![e].log = Append(@, call),
                                ![e].outs = Append(@, r.out),
                                ![e].got = IF call[1] = "Get" /\ engs[e].kind # "Goertzel"
                                           THEN <<call[2], r.out>>
                                           ELSE @]
    /\ UNCHANGED slices

\* The caller assigns to an element of a slice it passed, or may pass, to a
\* constructor.
CallerWritesSlice(s, i) ==
    /\ i \in DOMAIN slices[s]
    /\ slices[s][i] # CallerValue
    /\ slices' = [slices EXCEPT ![s][i] = CallerValue]
    /\ UNCHANGED engs

\* The caller assigns to an element of the slice an accessor returned.
CallerWritesGot(e, i) ==
    /\ engs[e].got # <<>>
    /\ i \in DOMAIN engs[e].got[2]
    /\ engs[e].got[2][i] # CallerValue
    /\ engs' = [engs EXCEPT ![e].got[2][i] = CallerValue]
    /\ UNCHANGED slices

---------------------------------------------------------------------------
(* Two goroutines calling one filter: Tick and Reset by single accesses *)

\* A call in progress: the method, its argument, the statement it is at and
\* its locals (seen, seenY: the cursor values it last read or wrote); slot is
\* the index its input was stored at, -1 before that.
NoThread ==
    [op |-> "none", input |-> Zero, pc |-> "done", begun |-> FALSE, seen |-> 0,
     seenY |-> 0, idx |-> 0, i |-> 0, output |-> Zero, ret |-> Zero, slot |-> -1]

\* No filter is shared.
NoRace == [kind |-> "none", start |-> <<>>, t |-> <<NoThread, NoThread>>, overlap |-> FALSE]

\* The first statement of a method.
EntryOf(kind, op) ==
    CASE kind = "FIR" /\ op = "Tick"  -> "readPos"
      [] kind = "FIR" /\ op = "Reset" -> "clear"
      [] kind = "IIR" /\ op = "Tick"  -> "readXPos"
      [] kind = "IIR" /\ op = "Reset" -> "clearX"

ThreadOf(kind, call) ==
    [NoThread EXCEPT !.op = call[1], !.input = call[2], !.pc = EntryOf(kind, call[1])]

\* The values a read of a cursor may give: the field as it is now, or the
\* value this call already holds for it from its last read or write.
CursorRead(field, held) == {field, held}

\* One access of FIRFilter.Tick by the call t on the struct f: every pair of
\* locals and struct it can leave.
FIRTickStep(t, f) ==
    LET n == ALen(f.buffer)
        advanced == FIRAdvance([f EXCEPT !.pos = t.seen])
    IN  CASE t.pc = "readPos" ->
                 {[t |-> [t EXCEPT !.seen = f.pos, !.pc = "writePos"], f |-> f]}
          [] t.pc = "writePos" ->
                 {[t |-> [t EXCEPT !.seen = advanced, !.pc = "readSlot"],
                   f |-> [f EXCEPT !.pos = advanced]]}
          [] t.pc = "readSlot" ->
                 {[t |-> [t EXCEPT !.idx = p, !.seen = p, !.pc = "writeBuf"], f |-> f] :
                     p \in CursorRead(f.pos, t.seen)}
          [] t.pc = "writeBuf" ->
                 {[t |-> [t EXCEPT !.slot = t.idx, !.pc = "readIdx"],
                   f |-> [f EXCEPT !.buffer[t.idx] = t.input]]}
          [] t.pc = "readIdx" ->
                 {[t |-> [t EXCEPT !.idx = p, !.seen = p, !.i = 0, !.output = Zero,
                                   !.pc = "loop"],
                   f |-> f] : p \in CursorRead(f.pos, t.seen)}
          [] t.pc = "loop" ->
                 LET acc  == FAdd(t.output, FMul(f.coeffs[t.i], f.buffer[t.idx]))
                     back == t.idx - 1
                     next == IF back < 0 THEN n - 1 ELSE back
                     last == ~(t.i + 1 < ALen(f.coeffs))
                 IN  {[t |-> [t EXCEPT !.output = acc, !.i = t.i + 1, !.idx = next,
                                       !.pc = IF last THEN "done" ELSE "loop",
                                       !.ret = IF last THEN acc ELSE t.ret],
                       f |-> f]}

\* Mutant of FIRResetStep: the cursor is left where it is.
FIRResetStepKeepsPos(t, f) ==
    LET n == ALen(f.buffer)
    IN  CASE t.pc = "clear" ->
                 {[t |-> [t EXCEPT !.i = t.i + 1,
                                   !.pc = IF t.i + 1 < n THEN "clear" ELSE "resetPos"],
                   f |-> [f EXCEPT !.buffer[t.i] = Zero]]}
          [] t.pc = "resetPos" ->
                 {[t |-> [t EXCEPT !.pc = "done"], f |-> f]}

\* One access of FIRFilter.Reset.
FIRResetStep(t, f) ==
    LET n == ALen(f.buffer)
    IN  CASE t.pc = "clear" ->
                 {[t |-> [t EXCEPT !.i = t.i + 1,
                                   !.pc = IF t.i + 1 < n THEN "clear" ELSE "resetPos"],
                   f |-> [f EXCEPT !.buffer[t.i] = Zero]]}
          [] t.pc = "resetPos" ->
                 {[t |-> [t EXCEPT !.pc = "done"], f |-> [f EXCEPT !.pos = n - 1]]}

\* One access of IIRFilter.Tick.
IIRTickStep(t, f) ==
    LET nx == ALen(f.xBuffer)
        ny == ALen(f.yBuffer)
    IN  CASE t.pc = "readXPos" ->
                 {[t |-> [t EXCEPT !.seen = f.xPos, !.pc = "writeX"], f |-> f]}
          [] t.pc = "writeX" ->
                 {[t |-> [t EXCEPT !.slot = t.seen, !.i = 0, !.output = Zero,
                                   !.pc = "fwdPos"],
                   f |-> [f EXCEPT !.xBuffer[t.seen] = t.input]]}
          [] t.pc = "fwdPos" ->
                 {[t |-> [t EXCEPT !.seen = p, !.idx = WrapIndex(p, t.i, nx),
                                   !.pc = "fwdRead"],
                   f |-> f] : p \in CursorRead(f.xPos, t.seen)}
          [] t.pc = "fwdRead" ->
                 LET acc  == FAdd(t.output, FMul(f.bCoeffs[t.i], f.xBuffer[t.idx]))
                     more == t.i + 1 < ALen(f.bCoeffs)
                 IN  {[t |-> [t EXCEPT !.output = acc,
                                       !.i = IF more THEN t.i + 1 ELSE 1,
                                       !.pc = IF more THEN "fwdPos"
                                              ELSE IF 1 < ALen(f.aCoeffs) THEN "firstYPos"
                                              ELSE "storePos"],
                       f |-> f]}
          [] t.pc = "firstYPos" ->
                 {[t |-> [t EXCEPT !.seenY = f.yPos, !.idx = WrapIndex(f.yPos, t.i, ny),
                                   !.pc = "fbRead"],
                   f |-> f]}
          [] t.pc = "fbPos" ->
                 {[t |-> [t EXCEPT !.seenY = p, !.idx = WrapIndex(p, t.i, ny),
                                   !.pc = "fbRead"],
                   f |-> f] : p \in CursorRead(f.yPos, t.seenY)}
          [] t.pc = "fbRead" ->
                 LET acc  == FSub(t.output, FMul(f.aCoeffs[t.i], f.yBuffer[t.idx]))
                     more == t.i + 1 < ALen(f.aCoeffs)
                 IN  {[t |-> [t EXCEPT !.output = acc, !.i = t.i + 1,
                                       !.pc = IF more THEN "fbPos" ELSE "storePos"],
                       f |-> f]}
          [] t.pc = "storePos" ->
                 {[t |-> [t EXCEPT !.seenY = p, !.idx = p, !.pc = "storeY"], f |-> f] :
                     p \in IF 1 < ALen(f.aCoeffs) THEN CursorRead(f.yPos, t.seenY)
                           ELSE {f.yPos}}
          [] t.pc = "storeY" ->
                 {[t |-> [t EXCEPT !.pc = "readXAdv"],
                   f |-> [f EXCEPT !.yBuffer[t.idx] = t.output]]}
          [] t.pc = "readXAdv" ->
                 {[t |-> [t EXCEPT !.seen = p, !.pc = "writeXAdv"], f |-> f] :
                     p \in CursorRead(f.xPos, t.seen)}
          [] t.pc = "writeXAdv" ->
                 {[t |-> [t EXCEPT !.pc = "readYAdv"],
                   f |-> [f EXCEPT !.xPos = (t.seen + 1) % nx]]}
          [] t.pc = "readYAdv" ->
                 {[t |-> [t EXCEPT !.seenY = p, !.pc = "writeYAdv"], f |-> f] :
                     p \in CursorRead(f.yPos, t.seenY)}
          [] t.pc = "writeYAdv" ->
                 {[t |-> [t EXCEPT !.pc = "done", !.ret = t.output],
                   f |-> [f EXCEPT !.yPos = (t.seenY + 1) % ny]]}

\* One access of IIRFilter.Reset.
IIRResetStep(t, f) ==
    CASE t.pc = "clearX" ->
             LET more == t.i + 1 < ALen(f.xBuffer)
             IN  {[t |-> [t EXCEPT !.i = IF more THEN t.i + 1 ELSE 0,
                                   !.pc = IF more THEN "clearX" ELSE "clearY"],
                   f |-> [f EXCEPT !.xBuffer[t.i] = Zero]]}
      [] t.pc = "clearY" ->
             LET more == t.i + 1 < ALen(f.yBuffer)
             IN  {[t |-> [t EXCEPT !.i = t.i + 1,
                                   !.pc = IF more THEN "clearY" ELSE "resetXPos"],
                   f |-> [f EXCEPT !.yBuffer[t.i] = Zero]]}
      [] t.pc = "resetXPos" ->
             {[t |-> [t EXCEPT !.pc = "resetYPos"], f |-> [f EXCEPT !.xPos = 0]]}
      [] t.pc = "resetYPos" ->
             {[t |-> [t EXCEPT !.pc = "done"], f |-> [f EXCEPT !.yPos = 0]]}

\* The next access of the call t on a filter of the given kind.
RaceStepsOf(kind, t, f) ==
    CASE kind = "FIR" /\ t.op = "Tick"  -> FIRTickStep(t, f)
      [] kind = "FIR" /\ t.op = "Reset" -> FIRResetStep(t, f)
      [] kind = "IIR" /\ t.op = "Tick"  -> IIRTickStep(t, f)
      [] kind = "IIR" /\ t.op = "Reset" -> IIRResetStep(t, f)

\* The call has made an access and has not returned.
InCall(t) == t.begun /\ t.pc # "done"

\* The sample ticked before the goroutines start, and the samples they tick.
RacePreSample == Num(3)
RaceInputs == <<One, <<-1, 2>>>>
\* The calls the second goroutine makes against the first one's Tick.
RaceSecondCalls == {<<"Tick", RaceInputs[2]>>, <<"Reset", Zero>>}
\* Largest number of Ticks made on a filter before it is shared.
MaxRacePreTicks == 1

RaceFIRCoeffSets == {<<Num(2)>>, <<One, Num(2)>>, <<One, Num(2), Num(3)>>}
RaceIIRCoeffSets ==
    { << <<One, <<1, 2>>>>, <<One, <<-1, 2>>>> >>,
      << <<One, Num(-1)>>,  <<One>> >> }

\* Two goroutines are handed the FIR or the IIR filter: the first calls Tick,
\* the second Tick or Reset.
RaceSpawn(kind, second) ==
    /\ thr = NoRace
    /\ thr' = [kind |-> kind,
               start |-> IF kind = "FIR" THEN fir ELSE iir,
               t |-> <<ThreadOf(kind, <<"Tick", RaceInputs[1]>>), ThreadOf(kind, second)>>,
               overlap |-> FALSE]

\* Goroutine k makes its next access.
RaceStep(k) ==
    /\ thr.kind # "none"
    /\ thr.t[k].pc # "done"
    /\ \E r \in RaceStepsOf(thr.kind, thr.t[k], IF thr.kind = "FIR" THEN fir ELSE iir) :
          /\ thr' = [thr EXCEPT !.t[k] = [r.t EXCEPT !.begun = TRUE],
                                !.overlap = @ \/ InCall(thr.t[3 - k])]
          /\ IF thr.kind = "FIR"
             THEN fir' = r.f /\ UNCHANGED iir
             ELSE iir' = r.f /\ UNCHANGED fir

---------------------------------------------------------------------------
(* CoherentPhaseDetector: angles are kept in units of pi *)

\* math.Pi and 2*math.Pi.
Pi == One
TwoPi == Num(2)

\* The integer whose square is n.
ISqrt(n) == CHOOSE k \in 0 .. n : k * k = n

\* A square root whose radicand is a square, as a float64.
RootValue(r) ==
    IF r.sq[2] = 0 THEN r.sq
    ELSE <<r.sgn * ISqrt(r.sq[1]), ISqrt(r.sq[2])>>

\* math.Mod(x, y) for a finite y > 0: the remainder has the sign of x.
FMod(x, y) ==
    IF x[2] = 0 THEN NaN
    ELSE FSub(x, FMul(Num(FTrunc(FDiv(x, y))), y))

\* math.Atan2(y, x) for a point on an axis.
Atan2(y, x) ==
    IF IsNaN(x) \/ IsNaN(y) THEN NaN
    ELSE CASE y = Zero /\ FGe(x, Zero) -> Zero
           [] y = Zero /\ FLt(x, Zero) -> Pi
           [] x = Zero /\ FLt(Zero, y) -> FDiv(Pi, Num(2))
           [] x = Zero /\ FLt(y, Zero) -> FNeg(FDiv(Pi, Num(2)))

\* cmplx.Phase(z).
CPhase(z) == Atan2(z[2], z[1])

\* z / complex(cmplx.Abs(z), 0).
Normalized(z) == CDiv(z, <<RootValue(CAbs(z)), Zero>>)

normalizePhase(phase) ==
    LET m == FMod(FAdd(phase, Pi), TwoPi)
        w == IF FLt(m, Zero) THEN FAdd(m, TwoPi) ELSE m
        r == FSub(w, Pi)
    IN  IF FEq(r, FNeg(Pi)) THEN Pi ELSE r

\* The value alpha is replaced by when it is not in (0, 1].
DefaultAlpha == <<1, 10>>

NoDetector == [referenceSignal |-> CZero, phaseOffset |-> Zero, alpha |-> Zero,
               filteredError |-> Zero]
NoDetectorCall == [op |-> "none", val |-> Zero, calls |-> 0]

NewCoherentPhaseDetector(referenceSignal, alpha) ==
    [referenceSignal |-> Normalized(referenceSignal),
     phaseOffset |-> Zero,
     alpha |-> IF FLe(alpha, Zero) \/ FLt(One, alpha) THEN DefaultAlpha ELSE alpha,
     filteredError |-> Zero]

\* Detect: the detector it leaves and the value it returns.
DetectOp(cpd, inputSignal) ==
    LET phaseDiff == normalizePhase(FSub(CPhase(Normalized(inputSignal)),
                                         CPhase(cpd.referenceSignal)))
        filtered  == FAdd(FMul(cpd.alpha, phaseDiff),
                          FMul(FSub(One, cpd.alpha), cpd.filteredError))
    IN  [cpd |-> [cpd EXCEPT !.filteredError = filtered],
         out |-> normalizePhase(FSub(filtered, cpd.phaseOffset))]

UpdateOffsetOp(cpd) ==
    [cpd EXCEPT !.phaseOffset = FAdd(cpd.phaseOffset, cpd.filteredError),
                !.filteredError = Zero]

SetPhaseOffsetOp(cpd, offset) == [cpd EXCEPT !.phaseOffset = normalizePhase(offset)]

\* Largest number of calls explored on one detector.
MaxPDCalls == 3
\* Reference signals: on the real axis, on the imaginary axis with magnitude 2,
\* and zero.
PDReferences == {<<One, Zero>>, <<Zero, Num(2)>>, CZero}
\* The alpha passed to the constructor: inside (0, 1], its upper end, and zero.
PDAlphas == {<<1, 2>>, One, Zero}
\* Non-zero inputs with phases 0, pi/2, pi and -pi/2, one of magnitude 2.
PDInputs == {<<One, Zero>>, <<Zero, One>>, <<Num(-1), Zero>>, <<Zero, Num(-2)>>}
\* Offsets passed to SetPhaseOffset: pi/2, -pi and 5*pi/2.
PDOffsets == {<<1, 2>>, Num(-1), <<5, 2>>}

PDInitOf(ref, alpha) ==
    /\ pd = NewCoherentPhaseDetector(ref, alpha)
    /\ pdRet = [op |-> "New", val |-> Zero, calls |-> 0]

PDDetect(x) ==
    /\ pdRet.calls < MaxPDCalls
    /\ LET r == DetectOp(pd, x)
       IN  /\ pd' = r.cpd
           /\ pdRet' = [op |-> "Detect", val |-> r.out, calls |-> pdRet.calls + 1]

PDUpdateOffset ==
    /\ pdRet.calls < MaxPDCalls
    /\ pd' = UpdateOffsetOp(pd)
    /\ pdRet' = [op |-> "UpdateOffset", val |-> Zero, calls |-> pdRet.calls + 1]

PDSetPhaseOffset(offset) ==
    /\ pdRet.calls < MaxPDCalls
    /\ pd' = SetPhaseOffsetOp(pd, offset)
    /\ pdRet' = [op |-> "SetPhaseOffset", val |-> Zero, calls |-> pdRet.calls + 1]

ShareIdle == slices = InitSlices /\ engs = [e \in EngNames |-> NoEng]
RaceIdle == thr = NoRace
PDIdle == pd = NoDetector /\ pdRet = NoDetectorCall

---------------------------------------------------------------------------
(* Specifications: one engine runs, the other two stay as constructed. *)

FIRIdle == FIRInitOf(<<One>>)
IIRIdle == IIRInitOf(<< <<One>>, <<One>> >>)
GIdle   == GInitOf(<<One, Num(4), 4>>)
ExtIdle == ShareIdle /\ RaceIdle /\ PDIdle

InitFIR == (\E c \in FIRCoeffSets : FIRInitOf(c)) /\ IIRIdle /\ GIdle /\ ExtIdle

NextFIR ==
    \/ \E x \in Samples : FIRTick(x) /\ UNCHANGED <<iirVars, gVars, extVars>>
    \/ FIRReset /\ UNCHANGED <<iirVars, gVars, extVars>>

SpecFIR == InitFIR /\ [][NextFIR]_vars

InitIIR == (\E c \in IIRCoeffSets : IIRInitOf(c)) /\ FIRIdle /\ GIdle /\ ExtIdle

NextIIR ==
    \/ \E x \in Samples : IIRTick(x) /\ UNCHANGED <<firVars, gVars, extVars>>
    \/ \E xs \in SeqsUpTo(Samples, MaxProcLen) : IIRProcess(xs) /\ UNCHANGED <<firVars, gVars, extVars>>
    \/ IIRReset /\ UNCHANGED <<firVars, gVars, extVars>>

SpecIIR == InitIIR /\ [][NextIIR]_vars

InitGoertzel == (\E c \in GoertzelConfigs : GInitOf(c)) /\ FIRIdle /\ IIRIdle /\ ExtIdle

NextGoertzel ==
    \/ \E x \in Samples : GProcess(x) /\ UNCHANGED <<firVars, iirVars, extVars>>
    \/ GReset /\ UNCHANGED <<firVars, iirVars, extVars>>
    \/ GGetMagnitude /\ UNCHANGED <<firVars, iirVars, extVars>>
    \/ GGetMagnitudeOptimized /\ UNCHANGED <<firVars, iirVars, extVars>>
    \/ GGetPower /\ UNCHANGED <<firVars, iirVars, extVars>>

SpecGoertzel == InitGoertzel /\ [][NextGoertzel]_vars

\* Construction from every explored slice, the empty ones included.
FIRCtorInputs == FIRCoeffSets \cup {<<>>}
IIRCtorInputs ==
    IIRCoeffSets \cup
    { << <<>>, <<One, <<1, 2>>>> >>,
      << <<<<1, 2>>>>, <<>> >>,
      << <<>>, <<>> >> }

InitStability == (\E c \in StabilityCoeffSets : IIRInitOf(c)) /\ FIRIdle /\ GIdle /\ ExtIdle

NextStability ==
    \/ \E x \in Samples : IIRTick(x) /\ UNCHANGED <<firVars, gVars, extVars>>
    \/ IIRIsStable /\ UNCHANGED <<firVars, gVars, extVars>>

SpecStability == InitStability /\ [][NextStability]_vars

\* A filter built by a design factory, then asked for its stability and for its
\* response at 0 and at its cutoff.
InitDesign == (\E d \in Designs : IIRDesignInitOf(d)) /\ FIRIdle /\ GIdle /\ ExtIdle

NextDesign ==
    \/ IIRIsStable /\ UNCHANGED <<firVars, gVars, extVars>>
    \/ \E freq \in {Zero, iirDesign.fc} :
          IIRGetFrequencyResponse(freq) /\ UNCHANGED <<firVars, gVars, extVars>>
    \/ IIRReset /\ UNCHANGED <<firVars, gVars, extVars>>

SpecDesign == InitDesign /\ [][NextDesign]_vars

\* A filter built from given coefficients, ticked, reset and queried in the
\* frequency domain.
InitResponse == (\E c \in ResponseCoeffSets : IIRInitOf(c)) /\ FIRIdle /\ GIdle /\ ExtIdle

NextResponse ==
    \/ \E input \in Samples :
          Len(iirIn) < MaxResponseTicks /\ IIRTick(input) /\ UNCHANGED <<firVars, gVars, extVars>>
    \/ IIRReset /\ UNCHANGED <<firVars, gVars, extVars>>
    \/ \E freq \in ResponseFreqs :
          IIRGetFrequencyResponse(freq) /\ UNCHANGED <<firVars, gVars, extVars>>
    \/ \E freq \in ResponseFreqs :
          IIRGetGroupDelay(freq) /\ UNCHANGED <<firVars, gVars, extVars>>

SpecResponse == InitResponse /\ [][NextResponse]_vars

\* A FIR and an IIR filter, each ticked and reset until its cursors have
\* wrapped.
MaxRingTicks == 3
RingSamples == {One}

InitRing ==
    /\ \E c \in FIRCoeffSets : FIRInitOf(c)
    /\ \E c \in IIRCoeffSets : IIRInitOf(c)
    /\ GIdle
    /\ ExtIdle

NextRing ==
    \/ \E x \in RingSamples :
          Len(firIn) < MaxRingTicks /\ FIRTick(x) /\ UNCHANGED <<iirVars, gVars, extVars>>
    \/ FIRReset /\ UNCHANGED <<iirVars, gVars, extVars>>
    \/ \E x \in RingSamples :
          Len(iirIn) < MaxRingTicks /\ IIRTick(x) /\ UNCHANGED <<firVars, gVars, extVars>>
    \/ \E xs \in SeqsUpTo(RingSamples, MaxProcLen) :
          /\ Len(iirIn) + Len(xs) <= MaxRingTicks
          /\ IIRProcess(xs)
          /\ UNCHANGED <<firVars, gVars, extVars>>
    \/ IIRReset /\ UNCHANGED <<firVars, gVars, extVars>>

SpecRing == InitRing /\ [][NextRing]_vars

\* A FIR and an IIR filter are constructed and ticked, then one of them is
\* called from two goroutines at once.
InitRace ==
    /\ \E c \in RaceFIRCoeffSets : FIRInitOf(c)
    /\ \E c \in RaceIIRCoeffSets : IIRInitOf(c)
    /\ GIdle
    /\ ExtIdle

NextRace ==
    \/ /\ thr = NoRace
       /\ Len(firIn) < MaxRacePreTicks
       /\ FIRTick(RacePreSample)
       /\ UNCHANGED <<iirVars, gVars, extVars>>
    \/ /\ thr = NoRace
       /\ Len(iirIn) < MaxRacePreTicks
       /\ IIRTick(RacePreSample)
       /\ UNCHANGED <<firVars, gVars, extVars>>
    \/ \E kind \in {"FIR", "IIR"}, second \in RaceSecondCalls :
          RaceSpawn(kind, second) /\ UNCHANGED <<firVars, iirVars, gVars, shareVars, pdVars>>
    \/ \E k \in 1 .. 2 :
          /\ RaceStep(k)
          /\ UNCHANGED <<firRet, firCfg, firIn, firOut, firResetFrom>>
          /\ UNCHANGED <<iirRet, iirCfg, iirDesign, iirIn, iirOut, iirResetFrom>>
          /\ UNCHANGED <<gVars, shareVars, pdVars>>

SpecRace == InitRace /\ [][NextRace]_vars

\* A phase detector is constructed and called.
InitPhase ==
    /\ FIRIdle /\ IIRIdle /\ GIdle /\ ShareIdle /\ RaceIdle
    /\ \E ref \in PDReferences, alpha \in PDAlphas : PDInitOf(ref, alpha)

NextPhase ==
    \/ \E x \in PDInputs :
          PDDetect(x) /\ UNCHANGED <<firVars, iirVars, gVars, shareVars, thr>>
    \/ PDUpdateOffset /\ UNCHANGED <<firVars, iirVars, gVars, shareVars, thr>>
    \/ \E o \in PDOffsets :
          PDSetPhaseOffset(o) /\ UNCHANGED <<firVars, iirVars, gVars, shareVars, thr>>

SpecPhase == InitPhase /\ [][NextPhase]_vars

\* Two instances are constructed from the caller's slices and called in any
\* order.
InitPair == FIRIdle /\ IIRIdle /\ GIdle /\ ExtIdle

\* A constructor or a later call on instance e.
EngineStep(e) ==
    \/ \E s \in SliceNames :
          ShareNewFIR(e, s) /\ UNCHANGED <<firVars, iirVars, gVars, thr, pdVars>>
    \/ \E sb \in SliceNames, sa \in SliceNames :
          ShareNewIIR(e, sb, sa) /\ UNCHANGED <<firVars, iirVars, gVars, thr, pdVars>>
    \/ \E c \in ShareGoertzelConfigs :
          ShareNewGoertzel(e, c) /\ UNCHANGED <<firVars, iirVars, gVars, thr, pdVars>>
    \/ \E k \in {"FIR", "IIR", "Goertzel"} : \E call \in CallsOf(k) :
          ShareCall(e, call) /\ UNCHANGED <<firVars, iirVars, gVars, thr, pdVars>>

NextPair == \E e \in EngNames : EngineStep(e)

SpecPair == InitPair /\ [][NextPair]_vars

\* One instance is constructed from the caller's slices and called, and the
\* caller writes to the slices it holds: those it passed to the constructor
\* and those the accessors returned.
NextShare ==
    \/ EngineStep("A")
    \/ \E s \in engs["A"].args, i \in 0 .. 1 :
          CallerWritesSlice(s, i) /\ UNCHANGED <<firVars, iirVars, gVars, thr, pdVars>>
    \/ \E i \in 0 .. 1 :
          CallerWritesGot("A", i) /\ UNCHANGED <<firVars, iirVars, gVars, thr, pdVars>>

SpecShare == InitPair /\ [][NextShare]_vars

InitConstruct ==
    /\ \E c \in FIRCtorInputs : FIRInitOf(c)
    /\ \E c \in IIRCtorInputs : IIRInitOf(c)
    /\ GIdle
    /\ ExtIdle

NextConstruct ==
    \/ FIRReset /\ UNCHANGED <<iirVars, gVars, extVars>>
    \/ IIRReset /\ UNCHANGED <<firVars, gVars, extVars>>

SpecConstruct == InitConstruct /\ [][NextConstruct]_vars

InitTone ==
    /\ \E c \in ToneConfigs : \E tone \in TonesFor(c[3]) : GToneInitOf(c, tone)
    /\ FIRIdle
    /\ IIRIdle
    /\ ExtIdle

NextTone ==
    \/ GFeedTone /\ UNCHANGED <<firVars, iirVars, extVars>>
    \/ GGetMagnitude /\ UNCHANGED <<firVars, iirVars, extVars>>
    \/ GGetMagnitudeOptimized /\ UNCHANGED <<firVars, iirVars, extVars>>

SpecTone == InitTone /\ [][NextTone]_vars

---------------------------------------------------------------------------
(* Reference definitions used by the properties *)

\* x[j] of a history kept as a tuple, with x[j] = 0 for j < 0.
At(h, j) == IF j < 0 THEN Zero ELSE h[j + 1]

\* sum over i in lo..hi of c[i] * h[n-i]
RECURSIVE LagSum(_, _, _, _, _)
LagSum(c, h, n, lo, hi) ==
    IF hi < lo THEN Zero
    ELSE FAdd(LagSum(c, h, n, lo, hi - 1), FMul(c[hi], At(h, n - hi)))

\* The first tuple is <<1, 0, 0, ...>>.
IsImpulse(h) == Len(h) >= 1 /\ h[1] = One /\ \A j \in 2 .. Len(h) : h[j] = Zero

Front(s) == SubSeq(s, 1, Len(s) - 1)
Last(s) == s[Len(s)]

\* Filter f after one Tick per element of xs, with the outputs returned.
RECURSIVE FIRRun(_, _)
FIRRun(f, xs) ==
    IF xs = <<>> THEN [f |-> f, outs |-> <<>>]
    ELSE LET p == FIRRun(f, Front(xs))
             r == FIRTickOp(p.f, Last(xs))
         IN  [f |-> r.f, outs |-> Append(p.outs, r.out)]

RECURSIVE IIRRun(_, _)
IIRRun(f, xs) ==
    IF xs = <<>> THEN [f |-> f, outs |-> <<>>]
    ELSE LET p == IIRRun(f, Front(xs))
             r == IIRTickOp(p.f, Last(xs))
         IN  [f |-> r.f, outs |-> Append(p.outs, r.out)]

\* Detector g after one Process per element of xs.
RECURSIVE GRun(_, _)
GRun(g, xs) ==
    IF xs = <<>> THEN g ELSE GProcessOp(GRun(g, Front(xs)), Last(xs)).gf

\* Everything a caller can read from a detector.
Readouts(g) ==
    [magnitude |-> GetMagnitude(g),
     optimized |-> GetMagnitudeOptimized(g),
     power     |-> GetPower(g),
     count     |-> GetProcessedCount(g),
     complete  |-> IsComplete(g)]

---------------------------------------------------------------------------
(* Properties *)

(* C1: every output a FIR Tick has returned since construction (or since   *)
(* the last Reset) is the causal convolution sum_{i<N} c[i]*x[n-i] with    *)
(* x[j] = 0 for j < 0; for the unit impulse <<1,0,0,...>> the outputs are  *)
(* c[0], ..., c[N-1] and then 0, however often the cursor has wrapped.     *)
C1_FIRConvolution ==
    LET N == ALen(fir.coeffs)
    IN  /\ Len(firOut) = Len(firIn)
        /\ \A j \in 1 .. Len(firOut) :
               firOut[j] = LagSum(fir.coeffs, firIn, j - 1, 0, N - 1)
        /\ IsImpulse(firIn) =>
               \A j \in 1 .. Len(firOut) :
                   firOut[j] = IF j - 1 < N THEN fir.coeffs[j - 1] ELSE Zero

\* A 3-tap filter, never reset, after 7 Ticks (the cursor has wrapped at
\* Ticks 1, 4 and 7) with a non-zero last output made of older samples.
C1_Witness ==
    /\ ALen(fir.coeffs) = 3
    /\ firResetFrom = "none"
    /\ Len(firIn) >= 7
    /\ firIn[7] = Zero
    /\ firIn[5] # firIn[6]
    /\ firRet.out # Zero
    /\ fir.pos = 0

(* C4: after a Reset, whatever Ticks came before it, the filter state and  *)
(* the outputs returned since are those of a freshly constructed filter    *)
(* with the same coefficients fed the same inputs; right after Reset the   *)
(* buffer is all zeros and the cursor is N-1; a second Reset changes       *)
(* nothing.                                                                *)
C4_FIRResetLaw ==
    firResetFrom # "none" =>
        LET fresh == NewFIRFilter(AsSeq(fir.coeffs)).f
            run   == FIRRun(fresh, firIn)
        IN  /\ fir = run.f
            /\ firOut = run.outs
            /\ firRet.op = "Reset" =>
                   /\ \A i \in DOMAIN fir.buffer : fir.buffer[i] = Zero
                   /\ fir.pos = ALen(fir.coeffs) - 1
                   /\ FIRResetOp(fir) = fir

\* A 3-tap filter reset from a state with samples in its buffer, then
\* ticked four times (past one wrap) with a non-zero last output.
C4_Witness ==
    /\ firResetFrom = "dirty"
    /\ ALen(fir.coeffs) = 3
    /\ Len(firIn) >= 4
    /\ firIn[1] # Zero
    /\ firRet.out # Zero

(* C2: every output the IIR filter has returned since construction (or    *)
(* the last Reset) satisfies the direct-form-I recurrence                  *)
(* y[n] = sum_{i<P} b[i]*x[n-i] - sum_{1<=i<Q} a[i]*y[n-i], with           *)
(* x[j] = y[j] = 0 for j < 0, for every pair of lengths P, Q.              *)
C2_IIRRecurrence ==
    LET P == ALen(iir.bCoeffs)
        Q == ALen(iir.aCoeffs)
    IN  /\ Len(iirOut) = Len(iirIn)
        /\ \A j \in 1 .. Len(iirOut) :
               iirOut[j] = FSub(LagSum(iir.bCoeffs, iirIn, j - 1, 0, P - 1),
                                LagSum(iir.aCoeffs, iirOut, j - 1, 1, Q - 1))

\* P = 3 and Q = 2: after five Ticks the input cursor has wrapped once and
\* the output cursor twice, and they differ.
C2_Witness ==
    /\ ALen(iir.bCoeffs) = 3
    /\ ALen(iir.aCoeffs) = 2
    /\ iirResetFrom = "none"
    /\ Len(iirIn) >= 5
    /\ iir.xPos # iir.yPos
    /\ iirRet.op = "Tick"
    /\ iirRet.out # Zero
    /\ iirOut[4] # Zero

(* C5: right after Reset both histories are all zeros and both cursors    *)
(* are 0, and b, a and the order are those of construction; after a Reset, *)
(* whatever preceded it, the state and the outputs are those of a freshly  *)
(* constructed filter with the same coefficients fed the same inputs.      *)
C5_IIRReset ==
    iirResetFrom # "none" =>
        LET fresh == NewIIRFilter(iirCfg[1], iirCfg[2]).f
            run   == IIRRun(fresh, iirIn)
        IN  /\ iir = run.f
            /\ iirOut = run.outs
            /\ iirRet.op = "Reset" =>
                   /\ \A i \in DOMAIN iir.xBuffer : iir.xBuffer[i] = Zero
                   /\ \A i \in DOMAIN iir.yBuffer : iir.yBuffer[i] = Zero
                   /\ iir.xPos = 0
                   /\ iir.yPos = 0
                   /\ iir.bCoeffs = fresh.bCoeffs
                   /\ iir.aCoeffs = fresh.aCoeffs
                   /\ iir.order = fresh.order

\* A filter with feedback, reset from a state with non-zero histories and
\* then fed three samples.
C5_Witness ==
    /\ iirResetFrom = "dirty"
    /\ ALen(iir.aCoeffs) = 3
    /\ Len(iirIn) >= 3
    /\ iirIn[1] # Zero
    /\ iirRet.out # Zero

(* C6: a Process(inputs) step returns as many outputs as inputs, the i-th  *)
(* being what the i-th of that many consecutive Ticks returns from the     *)
(* same starting state, and leaves the filter in the state those Ticks     *)
(* leave it in; on an empty slice it returns an empty slice and changes    *)
(* nothing.                                                                *)
C6_IIRProcessIsTicks ==
    [][ iirRet'.op = "Process" =>
          LET r == IIRRun(iir, iirRet'.inputs)
          IN  /\ Len(iirRet'.outs) = Len(iirRet'.inputs)
              /\ iirRet'.outs = r.outs
              /\ iir' = r.f
              /\ iirRet'.inputs = <<>> => (iirRet'.outs = <<>> /\ iir' = iir)
      ]_vars

\* A Process of two samples on a filter that had already been ticked.
C6_Witness ==
    /\ iirRet.op = "Process"
    /\ Len(iirRet.inputs) = 2
    /\ Len(iirIn) >= 4
    /\ ALen(iir.aCoeffs) >= 2
    /\ iirRet.outs[1] # iirRet.outs[2]
    /\ iirRet.outs[2] # Zero

(* C7: the constructed filter has a[0] == 1 and every stored coefficient   *)
(* is the supplied one divided by the supplied a[0], in every state        *)
(* reachable by Tick, Process and Reset.                                   *)
C7_A0IsOne ==
    LET b  == Arr(iirCfg[1])
        a  == Arr(iirCfg[2])
    IN  /\ FEq(iir.aCoeffs[0], One)
        /\ \A i \in DOMAIN iir.bCoeffs : FEq(iir.bCoeffs[i], FDiv(b[i], a[0]))
        /\ \A i \in DOMAIN iir.aCoeffs : FEq(iir.aCoeffs[i], FDiv(a[i], a[0]))

(* C3: a Process(sample) step taken while n < totalN succeeds and sets     *)
(* q1' = sample + coeff*q1 - q2, q2' = q1, n' = n + 1, leaving k, w, cosW, *)
(* sinW, coeff and totalN as they were.                                    *)
C3_GoertzelProcessStep ==
    [][ (gRet'.op = "Process" /\ ~gf.nil /\ gf.n < gf.totalN) =>
          /\ gRet'.err = NoError
          /\ gf'.q1 = FSub(FAdd(gRet'.input, FMul(gf.coeff, gf.q1)), gf.q2)
          /\ gf'.q2 = gf.q1
          /\ gf'.n = gf.n + 1
          /\ gf'.k = gf.k
          /\ gf'.w = gf.w
          /\ gf'.cosW = gf.cosW
          /\ gf'.sinW = gf.sinW
          /\ gf'.coeff = gf.coeff
          /\ gf'.totalN = gf.totalN
          /\ gf'.nil = gf.nil
      ]_vars

\* A third or later accepted sample, with q1, q2 non-zero and different
\* and a non-zero coefficient.
C3_Witness ==
    /\ gRet.op = "Process"
    /\ gRet.err = NoError
    /\ gf.n >= 3
    /\ gf.coeff # Zero
    /\ gf.q1 # Zero
    /\ gf.q2 # Zero
    /\ gf.q1 # gf.q2

(* C8: for a constructed detector, 0 <= n <= totalN; n is the number of    *)
(* Process calls that succeeded since construction or the last Reset;      *)
(* IsComplete() is true exactly when n = totalN, that is exactly when      *)
(* totalN calls have succeeded; GetProcessedCount() is n.                  *)
C8_GoertzelCounter ==
    ~gf.nil =>
        /\ 0 <= gf.n
        /\ gf.n <= gf.totalN
        /\ gf.n = Len(gIn)
        /\ IsComplete(gf) <=> (gf.n = gf.totalN)
        /\ IsComplete(gf) <=> (Len(gIn) = gf.totalN)
        /\ GetProcessedCount(gf) = gf.n

\* A detector of capacity three or more that is complete for the second
\* time (it was reset before) and has just refused a sample.
C8_Witness ==
    /\ ~gf.nil
    /\ gf.totalN >= 3
    /\ gResetFrom # "none"
    /\ IsComplete(gf)
    /\ gRet.op = "Process"
    /\ gRet.err # NoError

(* C9: a Process step on a complete detector returns an InvalidState       *)
(* error and leaves the detector (q1, q2, n and all) unchanged, so every   *)
(* readout is the same after it as before it; and in every complete state  *)
(* the detector and its readouts are those reached by the totalN accepted  *)
(* samples alone, however many samples were refused since.                 *)
C9_GoertzelRefusal ==
    /\ [](IsComplete(gf) =>
            LET atFull == GRun(NewGoertzelFilter(gCfg[1], gCfg[2], gCfg[3]).gf, gIn)
            IN  /\ Len(gIn) = gf.totalN
                /\ gf.q1 = atFull.q1
                /\ gf.q2 = atFull.q2
                /\ gf.n = atFull.n
                /\ Readouts(gf) = Readouts(atFull))
    /\ [][ (gRet'.op = "Process" /\ ~gf.nil /\ gf.n >= gf.totalN) =>
             /\ gRet'.err.kind = "InvalidState"
             /\ gf'.q1 = gf.q1
             /\ gf'.q2 = gf.q2
             /\ gf'.n = gf.n
             /\ gf' = gf
             /\ Readouts(gf') = Readouts(gf)
         ]_vars

\* A complete detector holding a non-zero magnitude that has just refused
\* a non-zero sample.
C9_Witness ==
    /\ ~gf.nil
    /\ gRet.op = "Process"
    /\ gRet.err.kind = "InvalidState"
    /\ gRet.input # Zero
    /\ gf.totalN >= 3
    /\ gf.n = gf.totalN
    /\ GetMagnitude(gf).err = NoError
    /\ GetMagnitude(gf).val.sgn = 1

(* C10: a Reset step on a constructed detector sets q1, q2 and n to 0 and  *)
(* keeps k, w, cosW, sinW, coeff and totalN; after a Reset, from any prior *)
(* state, the detector is in the state (and gives the readouts) of a       *)
(* freshly constructed detector fed the same samples, and it accepts a     *)
(* sample exactly while fewer than totalN have been accepted since.        *)
C10_GoertzelReset ==
    /\ [](gResetFrom # "none" =>
            LET fresh == NewGoertzelFilter(gCfg[1], gCfg[2], gCfg[3]).gf
                same  == GRun(fresh, gIn)
            IN  /\ gf = same
                /\ Readouts(gf) = Readouts(same)
                /\ Len(gIn) <= gf.totalN
                /\ \A x \in Samples :
                       (GProcessOp(gf, x).err = NoError) <=> (Len(gIn) < gf.totalN))
    /\ [][ (gRet'.op = "Reset" /\ ~gf.nil) =>
             /\ gRet'.err = NoError
             /\ gf'.q1 = Zero
             /\ gf'.q2 = Zero
             /\ gf'.n = 0
             /\ gf'.k = gf.k
             /\ gf'.w = gf.w
             /\ gf'.cosW = gf.cosW
             /\ gf'.sinW = gf.sinW
             /\ gf'.coeff = gf.coeff
             /\ gf'.totalN = gf.totalN
         ]_vars

\* A detector reset when complete that has since accepted totalN samples
\* again and holds a non-zero state.
C10_Witness ==
    /\ gResetFrom = "complete"
    /\ gf.totalN >= 3
    /\ Len(gIn) = gf.totalN
    /\ gf.q1 # Zero
    /\ gf.q2 # Zero


(* C11: on a constructed detector GetMagnitude, GetMagnitudeOptimized and  *)
(* GetPower return an InvalidState error exactly when n = 0 (as after      *)
(* construction and after a Reset) and a value with no error whenever      *)
(* 1 <= n <= totalN, complete or not; a readout call leaves the detector   *)
(* as it found it.                                                         *)
ReadOps == {"GetMagnitude", "GetMagnitudeOptimized", "GetPower"}

ReadoutFailsIffEmpty(r, g) ==
    /\ (r.err.kind = "InvalidState") <=> (g.n = 0)
    /\ (r.err = NoError) <=> (1 <= g.n /\ g.n <= g.totalN)

C11_ReadoutErrors ==
    /\ [](~gf.nil =>
            /\ ReadoutFailsIffEmpty(GetMagnitude(gf), gf)
            /\ ReadoutFailsIffEmpty(GetMagnitudeOptimized(gf), gf)
            /\ ReadoutFailsIffEmpty(GetPower(gf), gf)
            /\ (gRet.op \in ReadOps => ReadoutFailsIffEmpty(gRet, gf))
            /\ (gRet.op \in {"New", "Reset"} =>
                    /\ GetMagnitude(gf).err.kind = "InvalidState"
                    /\ GetMagnitudeOptimized(gf).err.kind = "InvalidState"
                    /\ GetPower(gf).err.kind = "InvalidState"))
    /\ [][gRet'.op \in ReadOps => gf' = gf]_vars

\* A power readout of a detector that has taken some, not all, of its block,
\* after an earlier Reset.
C11_Witness ==
    /\ ~gf.nil
    /\ gRet.op = "GetPower"
    /\ gRet.err = NoError
    /\ gf.n >= 1
    /\ ~IsComplete(gf)
    /\ gRet.val # Zero
    /\ gResetFrom # "none"


InvalidGoertzelArgs(freq, samplingRate, totalN) ==
    \/ FLe(freq, Zero)
    \/ FLe(samplingRate, Zero)
    \/ totalN <= 0
    \/ FGe(freq, FDiv(samplingRate, Num(2)))

\* k is the integer nearest to x (the upper one when x is halfway).
IsRounded(k, x) ==
    /\ FLe(Num(2 * k - 1), FMul(Num(2), x))
    /\ FLt(FMul(Num(2), x), Num(2 * k + 1))

C14_GoertzelConstruction ==
    LET freq == gCfg[1]
        samplingRate == gCfg[2]
        totalN == gCfg[3]
        invalid == InvalidGoertzelArgs(freq, samplingRate, totalN)
    IN  /\ gf.nil <=> invalid
        /\ gRet.op = "New" =>
              /\ (gRet.err.kind = "InvalidParameter") <=> invalid
              /\ (gRet.err = NoError) <=> ~invalid
              /\ ~invalid => (gf.q1 = Zero /\ gf.q2 = Zero /\ gf.n = 0)
        /\ ~gf.nil =>
              /\ gf.totalN = totalN
              /\ 0 <= gf.k /\ gf.k <= totalN - 1
              /\ IsRounded(gf.k, FDiv(FMul(Num(totalN), freq), samplingRate))

\* A detector just constructed for totalN*freq/samplingRate = 3/2: bin 2.
C14_Witness ==
    /\ gRet.op = "New"
    /\ ~gf.nil
    /\ FMul(Num(2), FDiv(FMul(Num(gCfg[3]), gCfg[1]), gCfg[2])) = Num(3)
    /\ gf.k = 2


(* C13: when a detector on bin k, 0 < k < totalN/2, has processed exactly  *)
(* totalN samples of one sinusoid of amplitude A, GetMagnitude returns     *)
(* 2*|X[k]|/totalN, X[k] being the k-th DFT bin of the samples; that is    *)
(* within 1% of A when the sinusoid lies on bin k, and below 0.05 when it  *)
(* lies on another bin of 0 .. totalN/2.                                   *)

\* Real part of X[k], and the imaginary part in units of sin(2*pi*k/totalN),
\* summed over the first n samples of xs.
RECURSIVE DFTRe(_, _, _, _)
DFTRe(xs, k, totalN, n) ==
    IF n = 0 THEN Zero
    ELSE FAdd(DFTRe(xs, k, totalN, n - 1),
              FMul(xs[n], CosPi(BinAngle(k, n - 1, totalN))))

RECURSIVE DFTImUnits(_, _, _, _)
DFTImUnits(xs, k, totalN, n) ==
    IF n = 0 THEN Zero
    ELSE FSub(DFTImUnits(xs, k, totalN, n - 1),
              FMul(xs[n], Num(SinPi(BinAngle(k, n - 1, totalN)).sgn)))

\* |X[k]|^2; every non-zero sine of the bin has the square sin(2*pi*k/totalN)^2.
DFTPower(xs, k, totalN) ==
    LET re == DFTRe(xs, k, totalN, Len(xs))
        im == DFTImUnits(xs, k, totalN, Len(xs))
    IN  FAdd(FMul(re, re), FMul(SinPi(BinAngle(k, 1, totalN)).sq, FMul(im, im)))

MagTolerance == <<1, 100>>
OffBinLimit == <<1, 20>>

\* |r - a| <= tol * a for a root r and a > 0.
RootWithin(r, a, tol) ==
    LET lo == FMul(a, FSub(One, tol))
        hi == FMul(a, FAdd(One, tol))
    IN  r.sgn = 1 /\ FLe(FMul(lo, lo), r.sq) /\ FLe(r.sq, FMul(hi, hi))

\* r < c for a root r and c > 0.
RootBelow(r, c) == r.sgn <= 0 \/ FLt(r.sq, FMul(c, c))

C13_GoertzelDetection ==
    (~gf.nil /\ IsComplete(gf) /\ 0 < gf.k /\ 2 * gf.k < gf.totalN) =>
        LET m == GetMagnitude(gf)
        IN  /\ m.err = NoError
            /\ Len(gIn) = gf.totalN
            /\ \A i \in 1 .. Len(gIn) : gIn[i] = ToneSample(gTone, gf.totalN, i - 1)
            /\ m.val.sgn >= 0
            /\ m.val.sq = FDiv(FMul(Num(4), DFTPower(gIn, gf.k, gf.totalN)),
                               Num(gf.totalN * gf.totalN))
            /\ gTone.bin = gf.k => RootWithin(m.val, gTone.amp, MagTolerance)
            /\ gTone.bin # gf.k => RootBelow(m.val, OffBinLimit)
            /\ gRet.op = "GetMagnitude" => gRet.val = m.val

\* The magnitude 1/2 read from a complete block of 12 samples of an on-bin
\* sinusoid of amplitude 1/2 that does not start at its peak.
C13_Witness ==
    /\ ~gf.nil
    /\ IsComplete(gf)
    /\ gf.totalN = 12
    /\ gf.k = 2
    /\ gTone.bin = gf.k
    /\ gTone.amp = <<1, 2>>
    /\ gTone.shift = 1
    /\ gRet.op = "GetMagnitude"
    /\ gRet.val = Root(1, <<1, 4>>)

\* A complete block of a sinusoid of amplitude 2 on another bin reads 0.
C13_OffBinWitness ==
    /\ ~gf.nil
    /\ IsComplete(gf)
    /\ gTone.amp = Num(2)
    /\ gTone.bin # gf.k
    /\ gTone.bin > 0
    /\ gRet.op = "GetMagnitude"
    /\ gRet.val = Root(0, Zero)


(* C15: NewFIRFilter panics, and leaves no filter, exactly when its        *)
(* coefficient slice is empty; NewIIRFilter panics, and leaves no filter,  *)
(* exactly when b is empty or a is empty (whatever the other slice holds); *)
(* every non-empty input yields a filter holding coefficients of the       *)
(* given lengths.                                                          *)
C15_EmptyCoefficients ==
    /\ (firRet.op = "Panic") <=> (Len(firCfg) = 0)
    /\ firRet.op = "Panic" => NewFIRFilter(firCfg).panic /\ ALen(fir.coeffs) = 0
    /\ firRet.op # "Panic" =>
          /\ ALen(fir.coeffs) = Len(firCfg)
          /\ ALen(fir.coeffs) >= 1
          /\ GetBufferSize(fir) = Len(firCfg)
    /\ (iirRet.op = "Panic") <=> (Len(iirCfg[1]) = 0 \/ Len(iirCfg[2]) = 0)
    /\ iirRet.op = "Panic" => NewIIRFilter(iirCfg[1], iirCfg[2]).panic /\ iir = NilIIR
    /\ iirRet.op # "Panic" =>
          /\ ALen(iir.bCoeffs) = Len(iirCfg[1])
          /\ ALen(iir.aCoeffs) = Len(iirCfg[2])
          /\ ALen(iir.bCoeffs) >= 1
          /\ ALen(iir.aCoeffs) >= 1

\* NewFIRFilter panicked on the empty slice, and NewIIRFilter on an empty a
\* next to a non-empty b.
C15_Witness ==
    /\ firRet.op = "Panic"
    /\ firCfg = <<>>
    /\ iirRet.op = "Panic"
    /\ Len(iirCfg[1]) = 1
    /\ Len(iirCfg[2]) = 0


(* C17: with two feedback coefficients [1, a1] IsStable returns true       *)
(* exactly when |a1| < 1 (false for a1 = 1 and a1 = 3/2, true for          *)
(* a1 = 3/10); with three, [1, a1, a2], exactly when a2 < 1, a2 > -1,      *)
(* a2 > -a1 - 1 and a2 > a1 - 1; the answer does not depend on b.          *)
InTriangle(a1, a2) ==
    /\ FLt(a2, One)
    /\ FLt(Num(-1), a2)
    /\ FLt(Zero, FAdd(FAdd(a2, a1), One))
    /\ FLt(Zero, FAdd(FSub(a2, a1), One))

C17_IsStableLowOrders ==
    iirRet.op # "Panic" =>
        LET a  == iir.aCoeffs
            st == IsStable(iir)
        IN  /\ ALen(a) = 2 => (st <=> (FLt(Num(-1), a[1]) /\ FLt(a[1], One)))
            /\ (ALen(a) = 2 /\ a[1] \in {One, <<3, 2>>}) => ~st
            /\ (ALen(a) = 2 /\ a[1] = <<3, 10>>) => st
            /\ ALen(a) = 3 => (st <=> InTriangle(a[1], a[2]))
            /\ \A P \in 1 .. 4 : IsStable([iir EXCEPT !.bCoeffs = MakeZeros(P)]) = st
            /\ iirRet.op = "IsStable" => iirRet.stable = st

\* IsStable has just answered false for a filter on the edge a2 = a1 - 1 of the
\* triangle that has run.
C17_Witness ==
    /\ iirRet.op = "IsStable"
    /\ ~iirRet.stable
    /\ ALen(iir.aCoeffs) = 3
    /\ iir.aCoeffs[1] = One
    /\ iir.aCoeffs[2] = Zero
    /\ Len(iirIn) >= 1

(* C18: IsStable returns true for every filter with one feedback           *)
(* coefficient and for every filter with four or more, whatever their      *)
(* values, also when the outputs of Tick grow without bound.               *)
C18_IsStableOtherOrders ==
    iirRet.op # "Panic" =>
        /\ ALen(iir.aCoeffs) = 1 => IsStable(iir)
        /\ ALen(iir.aCoeffs) >= 4 => IsStable(iir)
        /\ (iirRet.op = "IsStable" /\ ALen(iir.aCoeffs) \notin {2, 3}) => iirRet.stable

\* y[n] = x[n] + 2*y[n-1] (a = [1, -2, 0, 0]) has answered the impulse with
\* 1, 2, 4, 8, 16 and is reported stable.
C18_Witness ==
    /\ iirRet.op = "IsStable"
    /\ iirRet.stable
    /\ ALen(iir.aCoeffs) = 4
    /\ iirIn = <<One, Zero, Zero, Zero, Zero>>
    /\ iirOut = <<One, Num(2), Num(4), Num(8), Num(16)>>


(* C16: each of the seven design factories panics, and returns no filter,  *)
(* when fc <= 0 or fc >= 0.5, and the three second-order factories also    *)
(* when Q <= 0; for 0 < fc < 0.5 (and Q > 0) the factory returns a filter. *)
ValidDesign(d) ==
    /\ FLt(Zero, d.fc)
    /\ FLt(d.fc, Half)
    /\ d.kind \in SecondOrderKinds => FLt(Zero, d.Q)

C16_FactoryValidation ==
    iirDesign.kind # "none" =>
        /\ Design(iirDesign).panic <=> ~ValidDesign(iirDesign)
        /\ (iir = NilIIR) <=> ~ValidDesign(iirDesign)
        /\ ~ValidDesign(iirDesign) => iirRet.op = "Panic"
        /\ ValidDesign(iirDesign) =>
              /\ iirRet.op # "Panic"
              /\ ALen(iir.bCoeffs) >= 1
              /\ ALen(iir.aCoeffs) = IF iirDesign.kind \in SecondOrderKinds THEN 3 ELSE 2
              /\ GetOrder(iir) = ALen(iir.aCoeffs) - 1

\* NewSecondOrderBandPass has panicked on Q = 0 with a cutoff inside (0, 0.5).
C16_Witness ==
    /\ iirDesign.kind = "SecondOrderBandPass"
    /\ iirDesign.fc = <<1, 4>>
    /\ iirDesign.Q = Zero
    /\ iirRet.op = "Panic"
    /\ iir = NilIIR

\* A factory has returned a filter for a cutoff inside (0, 0.5), and the filter
\* has answered a call.
C16_FilterWitness ==
    /\ iirDesign.kind = "FirstOrderHighPassExp"
    /\ iirDesign.fc = <<159, 400>>
    /\ iirRet.op = "IsStable"
    /\ iir # NilIIR

(* C19: every filter returned by NewFirstOrderLowPass,                     *)
(* NewFirstOrderHighPass, NewSecondOrderLowPass and NewSecondOrderBandPass *)
(* for 0 < fc < 0.5 (and Q > 0) is reported stable by IsStable.            *)
StableKinds ==
    {"FirstOrderLowPass", "FirstOrderHighPass", "SecondOrderLowPass", "SecondOrderBandPass"}

C19_FactoriesStable ==
    (iirDesign.kind \in StableKinds /\ ValidDesign(iirDesign)) =>
        /\ IsStable(iir)
        /\ iirRet.op = "IsStable" => iirRet.stable

\* The same for cutoffs and quality factors that are not absorbed by 1.
C19_StableAtOrdinaryParameters ==
    (/\ iirDesign.kind \in StableKinds
     /\ ValidDesign(iirDesign)
     /\ Lvl(iirDesign.fc) = 0
     /\ Lvl(iirDesign.Q) = 0) =>
        /\ IsStable(iir)
        /\ iirRet.op = "IsStable" => iirRet.stable

(* C20: for 0 < fc < 0.5 the filter built by NewFirstOrderLowPass(fc) has  *)
(* b0 = b1 = alpha/(1+alpha) and a1 = -(1-alpha)/(1+alpha) with            *)
(* alpha = tan(pi*fc), has b0 + b1 = 1 + a1 and |response(0)| within 1% of *)
(* 1, and has |response(fc)| within 5% of 1/sqrt(2).                       *)
GainTolerance == <<1, 100>>
CutoffTolerance == <<1, 20>>

\* | r - 1/sqrt(2) | <= tol / sqrt(2) for a root r.
RootNearInvSqrt2(r, tol) ==
    LET lo == FSub(One, tol)
        hi == FAdd(One, tol)
    IN  /\ r.sgn = 1
        /\ FLe(FDiv(FMul(lo, lo), Num(2)), r.sq)
        /\ FLe(r.sq, FDiv(FMul(hi, hi), Num(2)))

FirstOrderLowPassLaw(f, fc) ==
    LET alpha == TanPi(fc)
        b0 == f.bCoeffs[0]
        b1 == f.bCoeffs[1]
        a1 == f.aCoeffs[1]
    IN  /\ ALen(f.bCoeffs) = 2 /\ ALen(f.aCoeffs) = 2
        /\ b0 = FDiv(alpha, FAdd(One, alpha))
        /\ b1 = b0
        /\ a1 = FNeg(FDiv(FSub(One, alpha), FAdd(One, alpha)))
        /\ FAdd(b0, b1) = FAdd(One, a1)
        /\ RootWithin(CAbs(GetFrequencyResponse(f, Zero).h), One, GainTolerance)
        /\ RootNearInvSqrt2(CAbs(GetFrequencyResponse(f, fc).h), CutoffTolerance)

C20_FirstOrderLowPass ==
    (iirDesign.kind = "FirstOrderLowPass" /\ ValidDesign(iirDesign)) =>
        FirstOrderLowPassLaw(iir, iirDesign.fc)

\* The same for cutoffs that are not absorbed by 1.
C20_LawAtOrdinaryCutoffs ==
    (/\ iirDesign.kind = "FirstOrderLowPass"
     /\ ValidDesign(iirDesign)
     /\ Lvl(iirDesign.fc) = 0) =>
        FirstOrderLowPassLaw(iir, iirDesign.fc)

---------------------------------------------------------------------------
(* The frequency-domain queries *)

\* z^i by repeated multiplication.
RECURSIVE ZPow(_, _)
ZPow(z, i) == IF i = 0 THEN <<One, Zero>> ELSE CMul(ZPow(z, i - 1), z)

\* c[0] + c[1]*z + ... + c[n-1]*z^(n-1)
RECURSIVE PolyAt(_, _, _)
PolyAt(c, z, n) ==
    IF n = 0 THEN CZero
    ELSE CAdd(PolyAt(c, z, n - 1), CMul(<<c[n - 1], Zero>>, ZPow(z, n - 1)))

\* c[0] + s*c[1] + s^2*c[2] + ... for s = 1 or s = -1.
RECURSIVE SignedSum(_, _, _)
SignedSum(c, s, n) ==
    IF n = 0 THEN Zero
    ELSE FAdd(SignedSum(c, s, n - 1),
              FMul(Num(IF (n - 1) % 2 = 0 THEN 1 ELSE s), c[n - 1]))

UnitCircle(freq) == <<Cos2Pi(freq), Sin2Pi(freq)>>

\* x is r, or differs from it by a residue that 1 absorbs.
NearReal(x, r) ==
    LET d == FSub(x, r)
    IN  d = Zero \/ (IsFinite(d) /\ Lvl(d) >= 1)

\* The value returned is B(z)/A(z), and at freq = 0 it is the ratio of the sums.
ResponseIsQuotient ==
    iirRet.op = "GetFrequencyResponse" =>
        LET z == UnitCircle(iirRet.input)
            B == PolyAt(iir.bCoeffs, z, ALen(iir.bCoeffs))
            A == PolyAt(iir.aCoeffs, z, ALen(iir.aCoeffs))
            sb == SignedSum(iir.bCoeffs, 1, ALen(iir.bCoeffs))
            sa == SignedSum(iir.aCoeffs, 1, ALen(iir.aCoeffs))
        IN  /\ A # CZero => iirRet.h = CDiv(B, A)
            /\ (iirRet.input = Zero /\ sa # Zero) => iirRet.h = <<FDiv(sb, sa), Zero>>

\* At Nyquist the value is exactly the ratio of the alternating sums.
ResponseAtNyquistExact ==
    (iirRet.op = "GetFrequencyResponse" /\ iirRet.input = Half) =>
        LET sb == SignedSum(iir.bCoeffs, -1, ALen(iir.bCoeffs))
            sa == SignedSum(iir.aCoeffs, -1, ALen(iir.aCoeffs))
        IN  sa # Zero => iirRet.h = <<FDiv(sb, sa), Zero>>

\* At Nyquist the value is the ratio of the alternating sums up to a residue.
ResponseAtNyquistNear ==
    (iirRet.op = "GetFrequencyResponse" /\ iirRet.input = Half) =>
        LET sb == SignedSum(iir.bCoeffs, -1, ALen(iir.bCoeffs))
            sa == SignedSum(iir.aCoeffs, -1, ALen(iir.aCoeffs))
        IN  sa # Zero => /\ NearReal(iirRet.h[1], FDiv(sb, sa))
                         /\ NearReal(iirRet.h[2], Zero)

\* A frequency-domain query assigns nothing in the filter.
QueryKeepsFilter ==
    (iirRet'.op \in {"GetFrequencyResponse", "GetGroupDelay"}) =>
        /\ iir' = iir
        /\ iirIn' = iirIn
        /\ iirOut' = iirOut

(* C21: GetFrequencyResponse(freq) returns B(z)/A(z) at z = e^(j*2*pi*freq); *)
(* when the denominator is not zero, response(0) is sum(b)/sum(a) and        *)
(* response(0.5) is the ratio of the alternating sums, both with zero        *)
(* imaginary part; the call leaves histories and cursors alone.              *)
C21_FrequencyResponse ==
    /\ [](ResponseIsQuotient /\ ResponseAtNyquistExact)
    /\ [][QueryKeepsFilter]_vars

\* C21, with response(0.5) equal to the ratio of the alternating sums only up
\* to the residue left by math.Sin(math.Pi) # 0, in both parts.
C21_ResponseUpToResidue ==
    /\ [](ResponseIsQuotient /\ ResponseAtNyquistNear)
    /\ [][QueryKeepsFilter]_vars

\* The response at Nyquist of a ticked filter has a non-zero imaginary part.
C21_Witness ==
    /\ iirRet.op = "GetFrequencyResponse"
    /\ iirRet.input = Half
    /\ iirIn # <<>>
    /\ SignedSum(iir.aCoeffs, -1, ALen(iir.aCoeffs)) # Zero
    /\ iirRet.h[2] # Zero
    /\ Lvl(iirRet.h[2]) >= 1

OutOfRange(freq) == FLt(freq, Zero) \/ FLt(Half, freq)

C22_RefusedWitness ==
    /\ iirRet.op = "Panic"
    /\ iirRet.input = <<3, 5>>

\* Feedback coefficients whose alternating sum is zero: the A(z) computed at
\* Nyquist is (0, residue), and the response is finite.
C22_NyquistPole ==
    /\ iirRet.op = "GetFrequencyResponse"
    /\ iirRet.input = Half
    /\ SignedSum(iir.aCoeffs, -1, ALen(iir.aCoeffs)) = Zero
    /\ IsFinite(iirRet.h[1]) /\ IsFinite(iirRet.h[2])

\* c[1] + 2*c[2] + ... + (n-1)*c[n-1]
RECURSIVE WeightedSum(_, _)
WeightedSum(c, n) ==
    IF n = 0 THEN Zero
    ELSE FAdd(WeightedSum(c, n - 1), FMul(Num(n - 1), c[n - 1]))

\* The group delay at freq = 0 in closed form; 0 where the response is null.
GroupDelayAtZero(f) ==
    LET sb == SignedSum(f.bCoeffs, 1, ALen(f.bCoeffs))
        sa == SignedSum(f.aCoeffs, 1, ALen(f.aCoeffs))
    IN  IF sb = Zero THEN Zero
        ELSE FSub(FDiv(WeightedSum(f.bCoeffs, ALen(f.bCoeffs)), sb),
                  FDiv(WeightedSum(f.aCoeffs, ALen(f.aCoeffs)), sa))

GroupDelayLaw ==
    /\ IsFinite(iirRet.out)
    /\ iirRet.input = Zero => iirRet.out = GroupDelayAtZero(iir)

(* C23: GetGroupDelay returns a finite number, neither NaN nor infinite,   *)
(* for every filter and every freq in [0, 0.5], also where A(z) is zero    *)
(* (a = [1, -1] at freq 0); at freq = 0 it is                              *)
(* sum(i*b[i])/sum(b[i]) - sum(i*a[i])/sum(a[i]), and 0 where |H| < 1e-12. *)
C23_GroupDelayFinite ==
    iirRet.op = "GetGroupDelay" => GroupDelayLaw

\* The same where the A(z) computed at the frequency is not zero.
C23_FiniteAwayFromPoles ==
    (/\ iirRet.op = "GetGroupDelay"
     /\ PolyAt(iir.aCoeffs, UnitCircle(iirRet.input), ALen(iir.aCoeffs)) # CZero) =>
        GroupDelayLaw

\* A group delay computed away from a pole, at freq 0, that is not zero.
C23_FiniteReached ==
    /\ iirRet.op = "GetGroupDelay"
    /\ iirRet.input = Zero
    /\ IsFinite(iirRet.out)
    /\ iirRet.out # Zero

---------------------------------------------------------------------------
(* Slices and instances *)

\* The instance a constructor call returns for arguments given by value.
StartOf(kind, cfg) ==
    CASE kind = "FIR" -> NewFIRFilter(cfg[1]).f
      [] kind = "IIR" -> NewIIRFilter(cfg[1], cfg[2]).f
      [] kind = "Goertzel" -> NewGoertzelFilter(cfg[1], cfg[2], cfg[3]).gf

\* An instance run alone: constructed from cfg, then called as log says.
RECURSIVE Replay(_, _, _)
Replay(kind, cfg, log) ==
    IF log = <<>> THEN [f |-> StartOf(kind, cfg), outs |-> <<>>]
    ELSE LET p == Replay(kind, cfg, Front(log))
             r == EngCall(kind, p.f, Last(log))
         IN  [f |-> r.f, outs |-> Append(p.outs, r.out)]

\* Instance e is in the state, and has returned the values, of its own calls
\* run alone.
RunsAlone(e) ==
    LET p == Replay(engs[e].kind, engs[e].cfg, engs[e].log)
    IN  EngView(e) = p.f /\ engs[e].outs = p.outs

\* The coefficients instance e filters with, by accessor name.
CoeffsOf(e, which) ==
    CASE which = "coeffs" -> EngView(e).coeffs
      [] which = "b" -> EngView(e).bCoeffs
      [] which = "a" -> EngView(e).aCoeffs

\* The step is an accessor call on e.
IsGet(e) ==
    /\ Len(engs'[e].log) = Len(engs[e].log) + 1
    /\ Last(engs'[e].log)[1] = "Get"
    /\ engs[e].kind \in {"FIR", "IIR"}

\* The step is a write by the caller to the slice an accessor returned to it.
IsGotWrite(e) == engs[e].got # <<>> /\ engs'[e].log = engs[e].log /\ engs'[e].got # engs[e].got

\* An accessor returns the coefficients and assigns nothing in the filter.
AccessorReturnsCoeffs ==
    IsGet("A") =>
        /\ engs'["A"].got = <<Last(engs'["A"].log)[2], CoeffsOf("A", Last(engs'["A"].log)[2])>>
        /\ engs'["A"].f = engs["A"].f
        /\ slices' = slices

\* A write to the returned slice changes nothing the filter reads.
GotWriteKeepsFilter ==
    IsGotWrite("A") => (engs'["A"].f = engs["A"].f /\ slices' = slices)

\* The slice a FIR instance was constructed from holds what it held then.
ArgUntouched(e) == engs[e].kind = "FIR" => slices[engs[e].f.coeffs] = Arr(engs[e].cfg[1])

(* C24: GetCoefficients, GetBCoeffs and GetACoeffs return copies: a write   *)
(* to the returned slice changes no coefficient the filter uses, so later   *)
(* Tick outputs and accessor results are those of the untouched filter;     *)
(* the accessors leave histories and cursors unchanged.                     *)
C24_DefensiveCopies ==
    /\ []((engs["A"].kind \in {"FIR", "IIR"} /\ ArgUntouched("A")) => RunsAlone("A"))
    /\ [][AccessorReturnsCoeffs /\ GotWriteKeepsFilter]_vars

\* A Tick after the caller overwrote the first element of a returned slice.
C24_Witness ==
    /\ engs["A"].kind \in {"FIR", "IIR"}
    /\ ArgUntouched("A")
    /\ Len(engs["A"].log) = 2
    /\ engs["A"].log[1][1] = "Get"
    /\ engs["A"].log[2][1] = "Tick"
    /\ engs["A"].got[2][0] = CallerValue
    /\ CoeffsOf("A", engs["A"].got[1])[0] # CallerValue

---------------------------------------------------------------------------
(* Ring buffers *)

\* Every element of the tuple idxs is an index of the slice buf.
AllInside(idxs, buf) == \A j \in 1 .. Len(idxs) : idxs[j] \in DOMAIN buf

(* C25: in every state reached by Tick, Process and Reset the FIR buffer    *)
(* has N = len(coeffs) elements and its cursor is in [0, N); the IIR input  *)
(* buffer has P = len(b) elements with its cursor in [0, P), the output     *)
(* buffer Q = len(a) elements with its cursor in [0, Q); no index a Tick    *)
(* computes is outside its buffer, also for N = 1, P = 1, Q = 1.            *)
C25_RingInvariant ==
    /\ ALen(fir.buffer) = ALen(fir.coeffs)
    /\ DOMAIN fir.buffer = 0 .. (ALen(fir.coeffs) - 1)
    /\ fir.pos \in DOMAIN fir.buffer
    /\ AllInside(FIRTickIndices(fir), fir.buffer)
    /\ ALen(iir.xBuffer) = ALen(iir.bCoeffs)
    /\ DOMAIN iir.xBuffer = 0 .. (ALen(iir.bCoeffs) - 1)
    /\ iir.xPos \in DOMAIN iir.xBuffer
    /\ AllInside(IIRTickXIndices(iir), iir.xBuffer)
    /\ ALen(iir.yBuffer) = ALen(iir.aCoeffs)
    /\ DOMAIN iir.yBuffer = 0 .. (ALen(iir.aCoeffs) - 1)
    /\ iir.yPos \in DOMAIN iir.yBuffer
    /\ AllInside(IIRTickYIndices(iir), iir.yBuffer)

\* Both cursors of a filter with P = 3 and Q = 2 have wrapped, and so has the
\* cursor of a FIR filter with N = 3 that was then reset.
C25_Witness ==
    /\ ALen(iir.bCoeffs) = 3
    /\ ALen(iir.aCoeffs) = 2
    /\ Len(iirIn) = 3
    /\ iir.xPos = 0
    /\ iir.yPos = 1
    /\ ALen(fir.coeffs) = 3
    /\ firResetFrom = "dirty"
    /\ Len(firIn) = 3
    /\ fir.pos = 2

\* The filters with a single coefficient, after a Tick.
C25_SingleSlotWitness ==
    /\ ALen(fir.coeffs) = 1
    /\ firIn # <<>>
    /\ ALen(iir.aCoeffs) = 1
    /\ iirIn # <<>>

(* C26: two separately constructed engines share no state: in any           *)
(* interleaving of constructor, Tick/Process/Reset and readout calls on     *)
(* instance A with calls on instance B, each instance returns the values    *)
(* and ends in the state of its own calls run alone.                        *)
C26_InstancesIndependent ==
    \A e \in EngNames : engs[e].kind # "none" => RunsAlone(e)

\* The same for two instances that were not constructed from one slice.
C26_IndependentOnOwnSlices ==
    (engs["A"].args \cap engs["B"].args = {}) =>
        \A e \in EngNames : engs[e].kind # "none" => RunsAlone(e)

\* A FIR filter and an IIR filter that normalized its own two slices, each
\* called twice.
C26_OwnSlicesReached ==
    /\ engs["A"].kind = "FIR" /\ engs["B"].kind = "IIR"
    /\ engs["A"].args \cap engs["B"].args = {}
    /\ "d" \in engs["B"].args
    /\ Len(engs["A"].outs) = 2 /\ Len(engs["B"].outs) = 2

---------------------------------------------------------------------------
(* Constructor arguments *)

\* The step is a write by the caller to slice s.
IsSliceWrite(s) == slices'[s] # slices[s] /\ engs' = engs

\* The step is a call on the constructed instance e.
IsCall(e) == engs[e].kind # "none" /\ engs'[e].log # engs[e].log

\* The step constructs instance e as a filter of the given kind.
IsNew(e, kind) == engs[e].kind = "none" /\ engs'[e].kind = kind

\* The coefficients a FIR instance filters with are those its constructor read.
FIRCoeffsAsConstructed(e) ==
    engs[e].kind = "FIR" => EngView(e).coeffs = Arr(engs[e].cfg[1])

(* C29: the coefficients a FIR filter's Tick uses are those the slice held  *)
(* when NewFIRFilter was called; neither Tick, Reset and accessor calls nor *)
(* later writes by the caller to that slice change them.                    *)
C29_FIRCoeffsImmutable == FIRCoeffsAsConstructed("A")

\* Calls on the filter change no coefficient: only a write to the slice does.
C29_CallsKeepCoeffs ==
    [][(engs["A"].kind = "FIR" /\ IsCall("A")) =>
          (slices' = slices /\ engs'["A"].f.coeffs = engs["A"].f.coeffs)]_vars

\* A Tick that multiplied by a value the caller wrote after construction.
C29_TickAfterWrite ==
    /\ engs["A"].kind = "FIR"
    /\ engs["A"].cfg[1][1] # CallerValue
    /\ EngView("A").coeffs[0] = CallerValue
    /\ engs["A"].log = <<<<"Tick", One>>>>
    /\ engs["A"].outs = <<CallerValue>>

\* What NewIIRFilter keeps: its arguments divided by a[0] when a[0] is not 1.
IIRCoeffsAsConstructed(e) ==
    engs[e].kind = "IIR" =>
        LET r == NewIIRFilter(engs[e].cfg[1], engs[e].cfg[2])
        IN  engs[e].f.bCoeffs = r.f.bCoeffs /\ engs[e].f.aCoeffs = r.f.aCoeffs

\* NewIIRFilter leaves the caller's slices as they were.
NewIIRKeepsArguments == IsNew("A", "IIR") => slices' = slices

\* A write to a slice leaves the coefficients of the constructed IIR filter.
SliceWriteKeepsIIR ==
    (engs["A"].kind = "IIR" /\ \E s \in SliceNames : IsSliceWrite(s)) =>
        (engs'["A"].f.bCoeffs = engs["A"].f.bCoeffs /\
         engs'["A"].f.aCoeffs = engs["A"].f.aCoeffs)

(* C30: NewIIRFilter has no effect on its arguments: after construction the *)
(* caller's b and a slices hold what they held before the call, also when   *)
(* a[0] is not 1, and later writes by the caller to those slices do not     *)
(* change the filter's coefficients.                                        *)
C30_NewIIRKeepsArguments == [][NewIIRKeepsArguments /\ SliceWriteKeepsIIR]_vars

\* The filter's own coefficients stay as constructed through calls and through
\* writes to the argument slices, and arguments with a[0] = 1 are left alone.
C30_OwnCopiesKept ==
    /\ [](IIRCoeffsAsConstructed("A"))
    /\ [][SliceWriteKeepsIIR]_vars
    /\ [][(IsNew("A", "IIR") /\ engs'["A"].cfg[2][1] = One) => slices' = slices]_vars

\* An IIR filter constructed with a[0] = 2, after a write to its b slice.
C30_WriteAfterNormalize ==
    /\ engs["A"].kind = "IIR"
    /\ engs["A"].cfg[2][1] = Num(2)
    /\ \E s \in engs["A"].args : slices[s][0] = CallerValue
    /\ engs["A"].f.bCoeffs[0] # CallerValue

---------------------------------------------------------------------------
(* Concurrent calls on one instance *)

\* The filter the two goroutines call.
RaceShared == IF thr.kind = "FIR" THEN fir ELSE iir

\* Both calls have returned.
RaceDone == thr.kind # "none" /\ thr.t[1].pc = "done" /\ thr.t[2].pc = "done"

\* What the two calls left and returned.
RaceOutcome == [f |-> RaceShared, rets |-> <<thr.t[1].ret, thr.t[2].ret>>]

\* What they leave and return when the call of goroutine k runs to its end
\* before the other starts.
SerialOutcome(k) ==
    LET call(j) == <<thr.t[j].op, thr.t[j].input>>
        a == EngCall(thr.kind, thr.start, call(k))
        b == EngCall(thr.kind, a.f, call(3 - k))
    IN  [f |-> b.f, rets |-> IF k = 1 THEN <<a.out, b.out>> ELSE <<b.out, a.out>>]

Serializable == RaceOutcome \in {SerialOutcome(1), SerialOutcome(2)}

\* Two Ticks stored their inputs in one slot of a buffer with several slots.
SameSlot ==
    /\ thr.t[1].op = "Tick" /\ thr.t[2].op = "Tick"
    /\ thr.t[1].slot = thr.t[2].slot
    /\ thr.t[1].slot >= 0
    /\ ALen(IF thr.kind = "FIR" THEN fir.buffer ELSE iir.xBuffer) > 1

\* The input of goroutine k is nowhere in the input history.
SampleLost(k) ==
    LET buf == IF thr.kind = "FIR" THEN fir.buffer ELSE iir.xBuffer
    IN  \A i \in DOMAIN buf : buf[i] # thr.t[k].input

(* C27: the engines take no lock, so two calls on one FIR or IIR instance   *)
(* (two Ticks, or a Tick and a Reset) interleaved access by access reach    *)
(* states and outputs no sequential order of the two calls gives: calls     *)
(* that do not overlap leave a sequential outcome, and two Ticks that       *)
(* stored their inputs in one buffer slot lose a sample and never do.       *)
C27_ConcurrentCallsUnsafe ==
    /\ (RaceDone /\ ~thr.overlap) => Serializable
    /\ (RaceDone /\ SameSlot) =>
           (~Serializable /\ (SampleLost(1) \/ SampleLost(2)))

\* Two FIR Ticks that both wrote one slot: an outcome of no sequential order.
C27_Witness ==
    /\ RaceDone
    /\ thr.kind = "FIR"
    /\ SameSlot
    /\ ~Serializable
    /\ SampleLost(1)

\* The same on the IIR filter.
C27_IIRWitness ==
    /\ RaceDone
    /\ thr.kind = "IIR"
    /\ SameSlot
    /\ ~Serializable

\* A Tick and a Reset, on either filter, with an outcome of no sequential order.
C27_ResetWitness ==
    /\ RaceDone
    /\ thr.t[2].op = "Reset"
    /\ ~Serializable

\* Two calls that did not overlap.
C27_SerialWitness ==
    /\ RaceDone
    /\ ~thr.overlap
    /\ thr.t[2].op = "Reset"
    /\ thr.kind = "FIR"
    /\ ALen(fir.buffer) > 1

---------------------------------------------------------------------------
(* Phase detector *)

\* x is a number in [-pi, pi].
InPhaseRange(x) == FLe(FNeg(Pi), x) /\ FLe(x, Pi)

\* The last Detect returned a phase in range and the filtered error is in range.
PhaseInRange ==
    /\ pdRet.op = "Detect" => InPhaseRange(pdRet.val)
    /\ InPhaseRange(pd.filteredError)

\* The reference the detector holds came from a non-zero signal.
ReferenceIsUnit == IsFinite(pd.referenceSignal[1]) /\ IsFinite(pd.referenceSignal[2])

(* C28: for a detector with 0 < alpha <= 1 and any sequence of Detect calls *)
(* on non-zero inputs interleaved with UpdateOffset and SetPhaseOffset,     *)
(* every value Detect returns lies in [-pi, pi] and the filtered error      *)
(* stays in [-pi, pi].                                                      *)
C28_PhaseRange ==
    (FLt(Zero, pd.alpha) /\ FLe(pd.alpha, One)) => PhaseInRange

\* The same for detectors constructed from a non-zero reference; -pi is
\* never returned.
C28_RangeForNonZeroReference ==
    ReferenceIsUnit =>
        /\ PhaseInRange
        /\ pdRet.op = "Detect" => pdRet.val # FNeg(Pi)
        /\ FLt(Zero, pd.alpha) /\ FLe(pd.alpha, One)

\* A Detect after UpdateOffset moved a non-zero error into the offset.
C28_DetectAfterOffset ==
    /\ ReferenceIsUnit
    /\ pdRet.op = "Detect"
    /\ pdRet.calls = 3
    /\ pd.phaseOffset # Zero
    /\ pd.filteredError # Zero
    /\ pdRet.val = Pi

===========================================================================
